---- MODULE Spec2Model ----
(***************************************************************************)
(* Model of the serverless checkout handlers of stripe-functions.          *)
(*                                                                         *)
(* Two generations of the checkout-session creator are modelled:           *)
(*   "geo"  : src/netlify/functions/retrieve-session.js (country-aware     *)
(*            shipping selection, detectCountry + EU_SET);                 *)
(*   "flat" : src/netlify/functions/create-checkout.js (every configured   *)
(*            shipping rate is offered).                                   *)
(* Three generations of the session retriever (src/unnamed/part_000):      *)
(*   "raw"       : lines 1-43, returns the fetched session as it is;       *)
(*   "trimmed"   : lines 44-108, returns a trimmed receipt;                *)
(*   "sanitized" : lines 109-215, returns the receipt with orderRef.       *)
(* Two generations of the webhook handler:                                 *)
(*   "short"    : src/netlify/functions/stripe-webhook.js;                 *)
(*   "polished" : src/unnamed/part_001.                                    *)
(* The payment processor and the email service are the environment: they   *)
(* answer each call with a result or with an error.                        *)
(*                                                                         *)
(* JavaScript strings that the code inspects character by character        *)
(* (parseInt, length, toUpperCase, catalog keys) are sequences of          *)
(* one-character strings; strings the code only copies (product names,     *)
(* messages) are TLA+ strings.                                             *)
(***************************************************************************)
EXTENDS Integers, Sequences, FiniteSets, TLC

VARIABLES
    env,        \* process.env of the deployment (fixed at start-up)
    pc,         \* position of the running invocation: idle, awaiting, replied,
                \* rating, mailing, done
    ver,        \* which generation of which handler runs this invocation
    event,      \* the event of the running invocation
    sent,       \* parameters of the processor call in flight
    reply,      \* the processor's answer to that call
    resp,       \* the response the handler returned
    calls,      \* processor calls issued by the running invocation
    sessions,   \* the sessions the creator had the processor create, in creation order
    invocations,\* invocations started so far
    okCount,    \* invocations that returned 200 so far
    account,    \* session objects the processor held before the first invocation
    local,      \* the running webhook invocation's local variables across its awaits
    emails,     \* messages handed to the email service, in order, with their outcome
    parked      \* the invocation that is suspended at an await while another runs

vars == <<env, pc, ver, event, sent, reply, resp, calls, sessions, invocations, okCount,
          account, local, emails, parked>>

\* what the checkout-session creator never touches
readerVars == <<account, local, emails, parked>>

----------------------------------------------------------------------------
(* Bounds of the model *)

\* longest cart (items array) a request carries
MaxCart == 2
\* invocations of the handler in one behaviour of SpecRepeat and of SpecRoundTrip
MaxInvocations == 3
\* reads of a held session in one behaviour of SpecRead
MaxReads == 2
\* longest line_items list of a session object the processor returns
MaxLineItems == 2
\* deliveries of one event that are told apart
MaxDeliveries == 2
\* invocations in one behaviour of SpecConcurrent, two of them at a time
MaxConcurrent == 2

----------------------------------------------------------------------------
(* JavaScript values *)

Undef == [t |-> "undef", n |-> 0, s |-> <<>>]
Null == [t |-> "null", n |-> 0, s |-> <<>>]
NaN == [t |-> "nan", n |-> 0, s |-> <<>>]
Num(n) == [t |-> "num", n |-> n, s |-> <<>>]
Str(s) == [t |-> "str", n |-> 0, s |-> s]

\* ToBoolean, as used by `x || y`, `if (x)` and filter(Boolean)
Truthy(v) ==
    CASE v.t = "undef" -> FALSE
      [] v.t = "null" -> FALSE
      [] v.t = "nan" -> FALSE
      [] v.t = "num" -> v.n # 0
      [] v.t = "str" -> v.s # <<>>

\* `a || b`
OrElse(a, b) == IF Truthy(a) THEN a ELSE b

DigitChars == <<"0", "1", "2", "3", "4", "5", "6", "7", "8", "9">>
IsDigit(c) == \E i \in 1..10 : DigitChars[i] = c
DigitVal(c) == (CHOOSE i \in 1..10 : DigitChars[i] = c) - 1

RECURSIVE NatToStr(_)
NatToStr(n) ==
    IF n < 10 THEN <<DigitChars[n + 1]>>
    ELSE NatToStr(n \div 10) \o <<DigitChars[(n % 10) + 1]>>

\* String(v) / template-literal conversion
StringOf(v) ==
    CASE v.t = "undef" -> <<"u", "n", "d", "e", "f", "i", "n", "e", "d">>
      [] v.t = "null" -> <<"n", "u", "l", "l">>
      [] v.t = "nan" -> <<"N", "a", "N">>
      [] v.t = "num" -> IF v.n < 0 THEN <<"-">> \o NatToStr(-v.n) ELSE NatToStr(v.n)
      [] v.t = "str" -> v.s

RECURSIVE TrimStart(_)
TrimStart(s) == IF s # <<>> /\ Head(s) = " " THEN TrimStart(Tail(s)) ELSE s

\* the longest prefix of decimal digits of s
RECURSIVE DigitPrefix(_)
DigitPrefix(s) ==
    IF s # <<>> /\ IsDigit(Head(s)) THEN <<Head(s)>> \o DigitPrefix(Tail(s)) ELSE <<>>

RECURSIVE DigitsValue(_, _)
DigitsValue(ds, acc) ==
    IF ds = <<>> THEN acc ELSE DigitsValue(Tail(ds), acc * 10 + DigitVal(Head(ds)))

\* parseInt(v, 10): convert to string, skip leading blanks, take an optional
\* sign and the longest run of digits; NaN when there is no digit.
ParseInt(v) ==
    LET s == TrimStart(StringOf(v))
        neg == s # <<>> /\ Head(s) = "-"
        body == IF s # <<>> /\ Head(s) \in {"-", "+"} THEN Tail(s) ELSE s
        ds == DigitPrefix(body)
    IN IF ds = <<>> THEN NaN
       ELSE Num(IF neg THEN -DigitsValue(ds, 0) ELSE DigitsValue(ds, 0))

\* ToNumber of the values that reach arithmetic here: undefined is NaN
ToNumber(v) == IF v.t = "num" THEN v ELSE NaN

\* Math.max(a, b): NaN when either argument is NaN
MathMax(a, b) ==
    IF ToNumber(a).t = "nan" \/ ToNumber(b).t = "nan" THEN NaN
    ELSE Num(IF a.n >= b.n THEN a.n ELSE b.n)

Times(a, b) ==
    IF ToNumber(a).t = "nan" \/ ToNumber(b).t = "nan" THEN NaN ELSE Num(a.n * b.n)

Plus(a, b) ==
    IF ToNumber(a).t = "nan" \/ ToNumber(b).t = "nan" THEN NaN ELSE Num(a.n + b.n)

\* a >= b and a > b are false when either side is NaN
GreaterEq(a, b) == a.t = "num" /\ b.t = "num" /\ a.n >= b.n
Greater(a, b) == a.t = "num" /\ b.t = "num" /\ a.n > b.n

----------------------------------------------------------------------------
(* Strings *)

\* a string the code only tests for emptiness and copies, kept in one piece
Txt(x) == [t |-> "str", n |-> 0, s |-> <<x>>]

\* typeof v === 'string'
IsString(v) == v.t = "str"

Letters ==
    <<"a", "b", "c", "d", "e", "f", "g", "h", "i", "j", "k", "l", "m",
      "n", "o", "p", "q", "r", "s", "t", "u", "v", "w", "x", "y", "z">>
Capitals ==
    <<"A", "B", "C", "D", "E", "F", "G", "H", "I", "J", "K", "L", "M",
      "N", "O", "P", "Q", "R", "S", "T", "U", "V", "W", "X", "Y", "Z">>
UpperChar(c) ==
    IF \E i \in 1..26 : Letters[i] = c
    THEN Capitals[CHOOSE i \in 1..26 : Letters[i] = c]
    ELSE c
\* String.prototype.toUpperCase
ToUpperCase(s) == [i \in 1..Len(s) |-> UpperChar(s[i])]

----------------------------------------------------------------------------
(* The server-side catalog *)

CURRENCY == "gbp"

CATALOG ==
    (<<"1">> :> [name |-> "Classic Black Hoodie", unit_amount |-> 4999]) @@
    (<<"2">> :> [name |-> "Neon Green Hoodie", unit_amount |-> 5499]) @@
    (<<"3">> :> [name |-> "Vintage Red Hoodie", unit_amount |-> 5299]) @@
    (<<"4">> :> [name |-> "Minimal White Hoodie", unit_amount |-> 4799]) @@
    (<<"5">> :> [name |-> "Camo Hoodie", unit_amount |-> 5999]) @@
    (<<"6">> :> [name |-> "Tie-Dye Hoodie", unit_amount |-> 5699])

\* CATALOG is an object literal, so CATALOG[id] also finds what Object.prototype
\* provides. "constructor" stands for those keys (toString, valueOf, ... behave
\* alike): the value found is the function Object, whose name is "Object" and
\* which has no unit_amount.
CONSTRUCTOR == <<"c", "o", "n", "s", "t", "r", "u", "c", "t", "o", "r">>
InheritedKeys == {CONSTRUCTOR}

\* CATALOG[id]: found says whether the value is truthy
Product(id) ==
    IF id \in DOMAIN CATALOG
    THEN [found |-> TRUE, name |-> CATALOG[id].name,
          unit_amount |-> Num(CATALOG[id].unit_amount)]
    ELSE IF id \in InheritedKeys
    THEN [found |-> TRUE, name |-> "Object", unit_amount |-> Undef]
    ELSE [found |-> FALSE, name |-> "", unit_amount |-> Undef]

----------------------------------------------------------------------------
(* Building line items from the cart *)

\* Math.max(1, parseInt(it.quantity || 1, 10))
Quantity(it) == MathMax(Num(1), ParseInt(OrElse(it.quantity, Num(1))))

\* [it.size, it.color].filter(Boolean).join(' / ')
Suffix(it) ==
    LET parts == SelectSeq(<<it.size, it.color>>, Truthy)
    IN IF Len(parts) = 0 THEN <<>>
       ELSE IF Len(parts) = 1 THEN parts[1].s
       ELSE parts[1].s \o <<" / ">> \o parts[2].s

\* LineItem as it would be if a price sent by the client were honoured
LineItemClientPrice(it) ==
    LET id == StringOf(it.id)
        product == Product(id)
    IN [ price_data |->
           [ currency |-> CURRENCY,
             product_data |->
               [ name |-> [product |-> product.name, suffix |-> Suffix(it)],
                 metadata |-> [base_id |-> id,
                               size |-> OrElse(it.size, Str(<<>>)).s,
                               color |-> OrElse(it.color, Str(<<>>)).s] ],
             unit_amount |-> OrElse(it.price, product.unit_amount) ],
         quantity |-> Quantity(it) ]

\* one element of line_items, for a cart line whose product was found;
\* name is product.name, followed by " - suffix" when the suffix is not empty
LineItem(it) ==
    LET id == StringOf(it.id)
        product == Product(id)
    IN [ price_data |->
           [ currency |-> CURRENCY,
             product_data |->
               [ name |-> [product |-> product.name, suffix |-> Suffix(it)],
                 metadata |-> [base_id |-> id,
                               size |-> OrElse(it.size, Str(<<>>)).s,
                               color |-> OrElse(it.color, Str(<<>>)).s] ],
             unit_amount |-> product.unit_amount ],
         quantity |-> Quantity(it) ]

\* index of the first cart line at which items.map throws, 0 when none does
FirstUnknown(items) ==
    LET bad == {i \in 1..Len(items) : ~Product(StringOf(items[i].id)).found}
    IN IF bad = {} THEN 0 ELSE CHOOSE i \in bad : \A j \in bad : i <= j

LineItems(items) == [i \in 1..Len(items) |-> LineItem(items[i])]

\* line_items.reduce((s, li) => s + li.price_data.unit_amount * li.quantity, 0)
RECURSIVE Subtotal(_)
Subtotal(lis) ==
    IF lis = <<>> THEN Num(0)
    ELSE LET n == Len(lis)
             li == lis[n]
         IN Plus(Subtotal(SubSeq(lis, 1, n - 1)),
                 Times(li.price_data.unit_amount, li.quantity))

\* items.map(({ id, quantity, size, color }) => ({ id, quantity, size, color }))
CartSummary(items) ==
    [i \in 1..Len(items) |->
        [id |-> items[i].id, quantity |-> items[i].quantity,
         size |-> items[i].size, color |-> items[i].color]]

----------------------------------------------------------------------------
(* Country detection and shipping options *)

\* JSON.parse of the x-nf-geo header followed by the test of parsed.country;
\* a header that does not parse, or parses to null, yields nothing
GeoCountry(geo) ==
    IF geo.kind = "object" /\ IsString(geo.country) /\ Len(geo.country.s) = 2
    THEN Str(ToUpperCase(geo.country.s))
    ELSE Null

detectCountry(ev, hintCountry) ==
    LET geo == ev.headers.geo
        cf == OrElse(OrElse(ev.headers.cfIpCountry, ev.headers.xCountry),
                     ev.headers.xCountryCode)
    IN IF geo.kind # "absent" /\ GeoCountry(geo) # Null THEN GeoCountry(geo)
       ELSE IF Truthy(cf) /\ IsString(cf) /\ Len(cf.s) = 2 THEN Str(ToUpperCase(cf.s))
       ELSE IF Truthy(hintCountry) /\ IsString(hintCountry) /\ Len(hintCountry.s) = 2
       THEN Str(ToUpperCase(hintCountry.s))
       ELSE Null

GB == <<"G", "B">>
EU_SET ==
    { <<"I", "E">>, <<"F", "R">>, <<"D", "E">>, <<"N", "L">>, <<"E", "S">>,
      <<"I", "T">>, <<"B", "E">>, <<"L", "U">>, <<"P", "T">>, <<"P", "L">>,
      <<"S", "E">>, <<"D", "K">>, <<"F", "I">>, <<"A", "T">>, <<"C", "Z">>,
      <<"H", "U">>, <<"R", "O">>, <<"B", "G">>, <<"H", "R">>, <<"G", "R">>,
      <<"S", "I">>, <<"S", "K">>, <<"L", "V">>, <<"L", "T">>, <<"E", "E">>,
      <<"C", "Y">>, <<"M", "T">> }

\* parseInt(process.env.FREE_SHIP_THRESHOLD_PENCE || '0', 10)
FreeThresh(e) == ParseInt(OrElse(e.FREE_SHIP_THRESHOLD_PENCE, Str(<<"0">>)))

\* FREE_THRESH > 0 && subtotalPence >= FREE_THRESH
FreeEligible(e, subtotal) ==
    Greater(FreeThresh(e), Num(0)) /\ GreaterEq(subtotal, FreeThresh(e))

\* pushRate applied to each key in turn: a rate is pushed only when its
\* environment variable is set
RECURSIVE PushRates(_, _)
PushRates(e, keys) ==
    IF keys = <<>> THEN <<>>
    ELSE (IF Truthy(e[Head(keys)]) THEN <<[shipping_rate |-> e[Head(keys)]]>> ELSE <<>>)
         \o PushRates(e, Tail(keys))

\* the earlier creator offers every configured rate
FlatRateKeys(e, subtotal) ==
    (IF FreeEligible(e, subtotal) THEN <<"SHIP_FREE_UK">> ELSE <<>>)
    \o <<"SHIP_UK_STANDARD", "SHIP_UK_EXPRESS", "SHIP_EU", "SHIP_INTL">>

\* GeoRateKeys as it would be with the express rate forgotten for GB
GeoRateKeysNoExpress(e, country, subtotal) ==
    LET free == IF FreeEligible(e, subtotal) THEN <<"SHIP_FREE_UK">> ELSE <<>>
    IN IF ~Truthy(country)
       THEN free \o <<"SHIP_UK_STANDARD", "SHIP_UK_EXPRESS", "SHIP_EU", "SHIP_INTL">>
       ELSE IF country.s = GB THEN free \o <<"SHIP_UK_STANDARD">>
       ELSE IF country.s \in EU_SET THEN <<"SHIP_EU">>
       ELSE <<"SHIP_INTL">>

\* GeoRateKeys as it would be if an unresolved country fell into the last branch
GeoRateKeysNullIntl(e, country, subtotal) ==
    LET free == IF FreeEligible(e, subtotal) THEN <<"SHIP_FREE_UK">> ELSE <<>>
    IN IF Truthy(country) /\ country.s = GB
       THEN free \o <<"SHIP_UK_STANDARD", "SHIP_UK_EXPRESS">>
       ELSE IF Truthy(country) /\ country.s \in EU_SET THEN <<"SHIP_EU">>
       ELSE <<"SHIP_INTL">>

\* GeoRateKeys as it would be if the country were ignored, as in the earlier creator
GeoRateKeysAsFlat(e, country, subtotal) == FlatRateKeys(e, subtotal)

\* the environment keys the country-aware creator passes to pushRate
GeoRateKeys(e, country, subtotal) ==
    LET free == IF FreeEligible(e, subtotal) THEN <<"SHIP_FREE_UK">> ELSE <<>>
    IN IF ~Truthy(country)
       THEN free \o <<"SHIP_UK_STANDARD", "SHIP_UK_EXPRESS", "SHIP_EU", "SHIP_INTL">>
       ELSE IF country.s = GB THEN free \o <<"SHIP_UK_STANDARD", "SHIP_UK_EXPRESS">>
       ELSE IF country.s \in EU_SET THEN <<"SHIP_EU">>
       ELSE <<"SHIP_INTL">>

ShippingOptions(v, e, country, subtotal) ==
    PushRates(e, IF v = "geo" THEN GeoRateKeys(e, country, subtotal)
                 ELSE FlatRateKeys(e, subtotal))

----------------------------------------------------------------------------
(* CORS headers and responses *)

ALLOWED_ORIGINS ==
    << "http://localhost:63342",
       "http://127.0.0.1:63342",
       "http://localhost:8888",
       "https://stripe-functions-clarity.netlify.app",
       "https://shajidissa.github.io" >>

pickAllowedOrigin(o) ==
    IF \E i \in 1..Len(ALLOWED_ORIGINS) : ALLOWED_ORIGINS[i] = o THEN o
    ELSE ALLOWED_ORIGINS[1]

corsHeaders(origin, reqHdrs) ==
    ("Access-Control-Allow-Origin" :> pickAllowedOrigin(origin)) @@
    ("Access-Control-Allow-Methods" :> "POST, OPTIONS") @@
    ("Access-Control-Allow-Headers" :> (IF reqHdrs # "" THEN reqHdrs ELSE "content-type")) @@
    ("Access-Control-Max-Age" :> "86400") @@
    ("Vary" :> "Origin, Access-Control-Request-Headers, Access-Control-Request-Method")

Msg(text, arg) == [text |-> text, arg |-> arg]

\* { statusCode, headers } and { statusCode, headers, body: '<text>' }
EmptyResponse(status, headers) ==
    [statusCode |-> status, headers |-> headers, kind |-> "none", text |-> "", json |-> <<>>]
TextResponse(status, headers, text) ==
    [statusCode |-> status, headers |-> headers, kind |-> "text", text |-> text, json |-> <<>>]
\* { statusCode, headers: {...cors, 'Content-Type': 'application/json'}, body: JSON.stringify(obj) }
JsonResponse(status, headers, obj) ==
    [statusCode |-> status,
     headers |-> ("Content-Type" :> "application/json") @@ headers,
     kind |-> "json", text |-> "", json |-> obj]

\* ErrorResponse as it would be with a fixed message in place of err.message
ErrorResponseGeneric(headers, message) ==
    JsonResponse(500, headers,
                 [error |-> Msg("Failed to create Stripe Checkout session.", <<>>)])

\* the catch block: 500 with { error: err.message }
ErrorResponse(headers, message) == JsonResponse(500, headers, [error |-> message])

\* SuccessResponse as it would be if only the session id were returned
SuccessResponseIdOnly(headers, session) ==
    JsonResponse(200, headers, [sessionId |-> session.id])

\* the return after the awaited create: 200 with { sessionId, url }
SuccessResponse(headers, session) ==
    JsonResponse(200, headers, [sessionId |-> session.id, url |-> session.url])

----------------------------------------------------------------------------
(* The synchronous part of the handler, up to the awaited create call *)

\* JSON.parse(event.body || '{}') followed by the destructuring of items,
\* basePath and hintCountry: what is thrown, if anything
ParseThrows(body) ==
    CASE body.kind = "malformed" -> Msg("Unexpected token in JSON", <<>>)
      [] body.kind = "null" -> Msg("Cannot destructure property 'items' of null", <<>>)
      [] OTHER -> Msg("", <<>>)

\* the destructured items: present only in an object that has them
ItemsOf(body) == IF body.kind = "object" THEN body.items ELSE [t |-> "missing", v |-> <<>>]
HintOf(body) == IF body.kind = "object" THEN body.hintCountry ELSE Undef

\* the argument of stripe.checkout.sessions.create
\* (success_url, cancel_url and product images are left out of the model)
CreateParams(v, e, ev, orderNumber) ==
    LET items == ItemsOf(ev.body).v
        line_items == LineItems(items)
        subtotalPence == Subtotal(line_items)
        country == detectCountry(ev, HintOf(ev.body))
    IN [ mode |-> "payment",
         line_items |-> line_items,
         client_reference_id |-> orderNumber,
         metadata |-> [order_number |-> orderNumber, cart |-> CartSummary(items)],
         payment_intent_data |-> [metadata |-> [order_number |-> orderNumber]],
         billing_address_collection |-> "required",
         shipping_address_collection |->
             [allowed_countries |-> <<"GB", "IE", "FR", "DE", "NL", "ES", "IT">>],
         shipping_options |-> ShippingOptions(v, e, country, subtotalPence),
         automatic_tax |-> [enabled |-> TRUE],
         allow_promotion_codes |-> TRUE ]

\* IdempotencyKey as it would be if the cart summary were passed as the key
IdempotencyKeyFromCart(params) == Str(params.metadata.cart)

\* the request options of the create call: none is passed, so no idempotency key
IdempotencyKey(params) == Undef

\* Everything the handler does before it awaits the processor: either it
\* returns a response, or it issues the create call.
Outcome(v, e, ev, orderNumber) ==
    LET origin == ev.headers.origin
        items == ItemsOf(ev.body)
    IN IF ev.httpMethod = "OPTIONS"
       THEN [call |-> FALSE,
             resp |-> EmptyResponse(204, corsHeaders(origin, ev.headers.reqHdrs))]
       ELSE IF ev.httpMethod # "POST"
       THEN [call |-> FALSE,
             resp |-> TextResponse(405, corsHeaders(origin, ""), "Method Not Allowed")]
       ELSE IF ParseThrows(ev.body).text # ""
       THEN [call |-> FALSE,
             resp |-> ErrorResponse(corsHeaders(origin, ""), ParseThrows(ev.body))]
       ELSE IF items.t # "array" \/ Len(items.v) = 0
       THEN [call |-> FALSE,
             resp |-> TextResponse(400, corsHeaders(origin, ""), "No items in request.")]
       ELSE IF FirstUnknown(items.v) # 0
       THEN [call |-> FALSE,
             resp |-> ErrorResponse(corsHeaders(origin, ""),
                         Msg("Unknown product id: ",
                             StringOf(items.v[FirstUnknown(items.v)].id)))]
       ELSE [call |-> TRUE, params |-> CreateParams(v, e, ev, orderNumber)]

----------------------------------------------------------------------------
(* Inputs: deployments, carts, headers, events *)

RateKeys == {"SHIP_FREE_UK", "SHIP_UK_STANDARD", "SHIP_UK_EXPRESS", "SHIP_EU", "SHIP_INTL"}

RateId(k) ==
    CASE k = "SHIP_FREE_UK" -> Txt("shr_free_uk")
      [] k = "SHIP_UK_STANDARD" -> Txt("shr_uk_standard")
      [] k = "SHIP_UK_EXPRESS" -> Txt("shr_uk_express")
      [] k = "SHIP_EU" -> Txt("shr_eu")
      [] k = "SHIP_INTL" -> Txt("shr_intl")

\* process.env with the given threshold and the given rate variables set
MkEnv(thresh, set) ==
    [k \in RateKeys |-> IF k \in set THEN RateId(k) ELSE Undef] @@
    ("FREE_SHIP_THRESHOLD_PENCE" :> thresh)

Envs ==
    { MkEnv(th, set) :
        th \in {Undef, Str(<<"7", "5", "0", "0">>)},
        set \in {RateKeys, RateKeys \ {"SHIP_FREE_UK"}, {"SHIP_UK_STANDARD", "SHIP_INTL"}} }

Line(id, quantity, price, size, color) ==
    [id |-> id, quantity |-> quantity, price |-> price, size |-> size, color |-> color]

\* client quantities: absent, zero, negative, a number, numeric and
\* non-numeric strings, a string with a numeric prefix
ClientQuantities ==
    { Undef, Num(0), Num(-2), Num(2), Str(<<"3">>), Str(<<"a", "b">>), Str(<<"2", "x">>) }

\* price fields a client may add to a cart line
ClientPrices == {Undef, Num(1)}

\* ids: catalog ids as string and as number, an id the catalog lacks, and a
\* key every object inherits
ClientIds == { Str(<<"1">>), Num(2), Str(<<"7">>), Str(CONSTRUCTOR) }

CartLines ==
    { Line(id, Undef, Undef, Undef, Undef) : id \in ClientIds }
    \cup { Line(Str(<<"1">>), q, Undef, Undef, Undef) : q \in ClientQuantities }
    \cup { Line(Str(<<"1">>), q, p, Undef, Undef) : q \in {Undef, Num(2)}, p \in ClientPrices }
    \cup { Line(Str(<<"5">>), Undef, Undef, Txt("M"), Undef),
           Line(Str(<<"5">>), Num(1), Num(1), Txt("M"), Txt("Red")) }

Carts == UNION { [1..n -> CartLines] : n \in 1..MaxCart }

Body(kind, items, hint) == [kind |-> kind, items |-> items, hintCountry |-> hint]
Items(t, v) == [t |-> t, v |-> v]
ObjectBody(cart, hint) == Body("object", Items("array", cart), hint)

\* bodies without a usable items array: no body, a body that is not JSON,
\* the JSON documents null and 5, {} , {"items":"x"} and {"items":[]}
OtherBodies ==
    { Body("absent", Items("missing", <<>>), Undef),
      Body("malformed", Items("missing", <<>>), Undef),
      Body("null", Items("missing", <<>>), Undef),
      Body("primitive", Items("missing", <<>>), Undef),
      Body("object", Items("missing", <<>>), Undef),
      Body("object", Items("notArray", <<>>), Undef),
      Body("object", Items("array", <<>>), Undef) }

Geo(kind, country) == [kind |-> kind, country |-> country]
NoGeo == Geo("absent", Undef)

\* x-nf-geo, cf-ipcountry, x-country, x-country-code and the body's hintCountry
Where(geo, cf, xc, xcc, hint) ==
    [geo |-> geo, cfIpCountry |-> cf, xCountry |-> xc, xCountryCode |-> xcc, hint |-> hint]

Nowhere == Where(NoGeo, Undef, Undef, Undef, Undef)

Wheres ==
    { Nowhere,
      Where(Geo("object", Str(<<"G", "B">>)), Undef, Undef, Undef, Undef),
      Where(Geo("object", Str(<<"g", "b">>)), Str(<<"U", "S">>), Undef, Undef, Undef),
      Where(Geo("object", Str(<<"f", "r">>)), Undef, Undef, Undef, Str(<<"G", "B">>)),
      Where(Geo("malformed", Undef), Str(<<"d", "e">>), Undef, Undef, Undef),
      Where(Geo("object", Str(<<"G", "B", "R">>)), Undef, Undef, Undef, Str(<<"u", "s">>)),
      Where(Geo("object", Num(44)), Undef, Undef, Undef, Undef),
      Where(Geo("null", Undef), Str(<<"G", "B">>), Undef, Undef, Str(<<"F", "R">>)),
      Where(NoGeo, Undef, Str(<<"i", "e">>), Undef, Undef),
      Where(NoGeo, Undef, Undef, Str(<<"j", "p">>), Str(<<"G", "B">>)),
      Where(NoGeo, Str(<<"X", "Y", "Z">>), Str(<<"I", "E">>), Undef, Str(<<"g", "b">>)),
      Where(NoGeo, Undef, Undef, Undef, Num(44)),
      Where(NoGeo, Undef, Undef, Undef, Str(<<"E", "S">>)) }

Event(method, origin, reqHdrs, w, body) ==
    [ httpMethod |-> method,
      headers |-> [origin |-> origin, reqHdrs |-> reqHdrs, geo |-> w.geo,
                   cfIpCountry |-> w.cfIpCountry, xCountry |-> w.xCountry,
                   xCountryCode |-> w.xCountryCode],
      body |-> body ]

Origins == {"", "https://shajidissa.github.io", "https://evil.example"}

\* carts below the free-shipping threshold, above it, and with a quantity
\* that is not a number
ShippingCarts ==
    { <<Line(Str(<<"1">>), Undef, Undef, Undef, Undef)>>,
      <<Line(Str(<<"1">>), Num(2), Undef, Undef, Undef)>>,
      <<Line(Str(<<"1">>), Str(<<"a", "b">>), Undef, Undef, Undef)>> }

Events ==
    { Event("POST", "", "", Nowhere, ObjectBody(c, Undef)) : c \in Carts }
    \cup { Event("POST", "", "", w, ObjectBody(c, w.hint)) : w \in Wheres, c \in ShippingCarts }
    \cup { Event("POST", o, "", Nowhere, b) : o \in Origins, b \in OtherBodies }
    \cup { Event(m, o, h, Nowhere, Body("absent", Items("missing", <<>>), Undef)) :
             m \in {"OPTIONS", "GET"}, o \in Origins, h \in {"", "x-requested-with"} }

\* events a client sends again and again
RepeatEvents ==
    { Event("POST", "", "", Nowhere, ObjectBody(c, Undef)) :
        c \in { <<Line(Str(<<"1">>), Num(2), Undef, Undef, Undef)>>,
                <<Line(Str(<<"7">>), Undef, Undef, Undef, Undef)>> } }

\* newOrderNumber(): "CL-" date "-" rand, the date from the clock and the
\* suffix from Math.random()
Dates == {"2025-01-15"}
RandSuffixes == {"K3F9Q", "7ZXA2"}
newOrderNumber(date, rand) == [prefix |-> "CL", date |-> date, rand |-> rand]

Versions == {"geo", "flat"}

----------------------------------------------------------------------------
(* The state machine *)

NoEvent == Event("", "", "", Nowhere, Body("absent", Items("missing", <<>>), Undef))
None == [none |-> TRUE]
NoResponse == EmptyResponse(0, <<>>)

Init ==
    /\ env \in Envs
    /\ pc = "idle"
    /\ ver = "geo"
    /\ event = NoEvent
    /\ sent = None
    /\ reply = None
    /\ resp = NoResponse
    /\ calls = 0
    /\ sessions = <<>>
    /\ invocations = 0
    /\ okCount = 0
    /\ account = {}
    /\ local = None
    /\ emails = <<>>
    /\ parked = None

\* The router invokes the handler with event ev: the handler runs up to its
\* first await, or to its return.
Invoke(v, ev) ==
    /\ pc = "idle"
    /\ \E d \in Dates, r \in RandSuffixes :
         LET out == Outcome(v, env, ev, newOrderNumber(d, r))
         IN IF out.call
            THEN /\ sent' = out.params
                 /\ calls' = 1
                 /\ pc' = "awaiting"
                 /\ resp' = NoResponse
            ELSE /\ sent' = None
                 /\ calls' = 0
                 /\ pc' = "done"
                 /\ resp' = out.resp
    /\ ver' = v
    /\ event' = ev
    /\ reply' = None
    /\ invocations' = invocations + 1
    /\ UNCHANGED <<env, sessions, okCount>>
    /\ UNCHANGED readerVars

SessionId(n) == <<"c", "s", "_">> \o NatToStr(n)

\* the sessions already created under idempotency key k
SameKey(k) == {i \in 1..Len(sessions) : k # Undef /\ sessions[i].key = k}

\* The processor answers the create call with a session: a new one, or, for
\* an idempotency key it has seen, the one created under that key.
CreateSucceeds ==
    /\ pc = "awaiting"
    /\ ver \in Versions
    /\ LET k == IdempotencyKey(sent)
           id == SessionId(Len(sessions) + 1)
           new == [id |-> id,
                   url |-> [host |-> "https://checkout.stripe.com/c/pay/", id |-> id],
                   key |-> k,
                   params |-> sent]
       IN IF SameKey(k) # {}
          THEN /\ reply' = [ok |-> TRUE, session |-> sessions[CHOOSE i \in SameKey(k) : TRUE]]
               /\ UNCHANGED sessions
          ELSE /\ reply' = [ok |-> TRUE, session |-> new]
               /\ sessions' = Append(sessions, new)
    /\ pc' = "replied"
    /\ UNCHANGED <<env, ver, event, sent, resp, calls, invocations, okCount>>
    /\ UNCHANGED readerVars

ProcessorErrors == {"Invalid request", "An error occurred with our connection to Stripe"}

\* The processor answers the create call with an error.
CreateFails ==
    /\ pc = "awaiting"
    /\ ver \in Versions
    /\ \E m \in ProcessorErrors : reply' = [ok |-> FALSE, message |-> Msg(m, <<>>)]
    /\ pc' = "replied"
    /\ UNCHANGED <<env, ver, event, sent, resp, calls, sessions, invocations, okCount>>
    /\ UNCHANGED readerVars

\* Resume as it would be if the awaited session were kept in a variable of
\* the module, which the invocation that awaited last has overwritten
ResumeShared ==
    /\ pc = "replied"
    /\ ver \in Versions
    /\ LET last == IF parked # None /\ parked.ver \in Versions /\ parked.pc \in {"replied", "done"}
                    THEN parked.reply ELSE reply
       IN resp' = IF last.ok
                  THEN SuccessResponse(corsHeaders(event.headers.origin, ""), last.session)
                  ELSE ErrorResponse(corsHeaders(event.headers.origin, ""), last.message)
    /\ okCount' = IF reply.ok THEN okCount + 1 ELSE okCount
    /\ pc' = "done"
    /\ UNCHANGED <<env, ver, event, sent, reply, calls, sessions, invocations>>
    /\ UNCHANGED readerVars

\* The handler resumes after the await and returns.
Resume ==
    /\ pc = "replied"
    /\ ver \in Versions
    /\ resp' = IF reply.ok
               THEN SuccessResponse(corsHeaders(event.headers.origin, ""), reply.session)
               ELSE ErrorResponse(corsHeaders(event.headers.origin, ""), reply.message)
    /\ okCount' = IF reply.ok THEN okCount + 1 ELSE okCount
    /\ pc' = "done"
    /\ UNCHANGED <<env, ver, event, sent, reply, calls, sessions, invocations>>
    /\ UNCHANGED readerVars

\* The invocation is over; the function instance is free for the next event.
Finish ==
    /\ pc = "done"
    /\ pc' = "idle"
    /\ event' = NoEvent
    /\ sent' = None
    /\ reply' = None
    /\ resp' = NoResponse
    /\ calls' = 0
    /\ UNCHANGED <<env, ver, sessions, invocations, okCount>>
    /\ UNCHANGED readerVars

\* one invocation, with any event
InvokeAny == invocations = 0 /\ \E v \in Versions, ev \in Events : Invoke(v, ev)

Next == InvokeAny \/ CreateSucceeds \/ CreateFails \/ Resume \/ Finish

Spec == Init /\ [][Next]_vars

\* a client invoking the handler repeatedly with a few events
InvokeAgain ==
    invocations < MaxInvocations /\ \E v \in Versions, ev \in RepeatEvents : Invoke(v, ev)

NextRepeat == InvokeAgain \/ CreateSucceeds \/ CreateFails \/ Resume \/ Finish

SpecRepeat == Init /\ [][NextRepeat]_vars

----------------------------------------------------------------------------
(* JavaScript objects *)

\* An object is a record of its properties, a property it lacks being
\* undefined; an array is an object holding a sequence. A value is null,
\* undefined, a number or a string when it has the field t.
IsNullish(v) == "t" \in DOMAIN v /\ v.t \in {"undef", "null"}

Array(xs) == [array |-> xs]

\* the TypeError a property read of null or undefined throws
TypeError == [error |-> "TypeError"]
Threw(v) == "error" \in DOMAIN v

\* ToBoolean of any value: objects and arrays are truthy
IsTruthy(v) == IF "t" \in DOMAIN v THEN Truthy(v) ELSE TRUE

\* the property f of a value that is neither null nor undefined
Get(o, f) == IF f \in DOMAIN o THEN o[f] ELSE Undef

\* o.f
Dot(o, f) == IF Threw(o) THEN o ELSE IF IsNullish(o) THEN TypeError ELSE Get(o, f)

\* o?.f
OptDot(o, f) == IF Threw(o) THEN o ELSE IF IsNullish(o) THEN Undef ELSE Get(o, f)

\* a?.[0]
OptFirst(a) ==
    IF Threw(a) THEN a
    ELSE IF IsNullish(a) THEN Undef
    ELSE IF "array" \in DOMAIN a /\ Len(a.array) > 0 THEN a.array[1]
    ELSE Undef

\* a || b and a ?? b, b being evaluated only when it is the result
Either(a, b) == IF Threw(a) \/ IsTruthy(a) THEN a ELSE b
Coalesce(a, b) == IF Threw(a) \/ ~IsNullish(a) THEN a ELSE b

\* s.slice(-n)
SliceLast(s, n) == IF Len(s) <= n THEN s ELSE SubSeq(s, Len(s) - n + 1, Len(s))

----------------------------------------------------------------------------
(* The session retriever: the three generations of src/unnamed/part_000 *)

RETRIEVE_ALLOWED_ORIGINS ==
    << "http://localhost:63342", "https://stripe-functions-clarity.netlify.app" >>

\* the CORS headers of the first generation
cors(origin) ==
    ("Access-Control-Allow-Origin" :>
        (IF \E i \in 1..Len(RETRIEVE_ALLOWED_ORIGINS) : RETRIEVE_ALLOWED_ORIGINS[i] = origin
         THEN origin ELSE RETRIEVE_ALLOWED_ORIGINS[1])) @@
    ("Access-Control-Allow-Methods" :> "GET, OPTIONS") @@
    ("Access-Control-Allow-Headers" :> "Content-Type")

\* the CORS headers of the third generation: those of the creator, for GET
corsHeadersGet(origin, reqHdrs) ==
    ("Access-Control-Allow-Methods" :> "GET, OPTIONS") @@ corsHeaders(origin, reqHdrs)

NoHeaders == <<>>

\* the handler's promise rejects: no response is returned
Uncaught(err) ==
    [statusCode |-> 0, headers |-> NoHeaders, kind |-> "uncaught", text |-> "", json |-> err]

\* the session_id the handler reads from the query string, and whether the
\* read throws
sessionIdOf(v, ev) ==
    LET q == ev.queryStringParameters
    IN CASE v = "raw" -> OptDot(q, "session_id")
         [] v = "trimmed" -> Dot(q, "session_id")
         [] v = "sanitized" -> Either(IF IsTruthy(q) THEN Dot(q, "session_id") ELSE q,
                                      Str(<<>>))

expandOf(v) ==
    CASE v = "raw" ->
           {"line_items.data.price.product", "customer_details", "shipping_details"}
      [] v = "trimmed" -> {"line_items.data.price.product", "shipping_cost.shipping_rate"}
      [] v = "sanitized" ->
           {"line_items.data.price.product", "total_details", "payment_intent",
            "shipping_cost.shipping_rate"}

RetrieveCall(id, expand) == [op |-> "checkout.sessions.retrieve", id |-> id, expand |-> expand]

\* What the retriever does before it awaits the processor: it returns a
\* response, or it issues the retrieve call.
RetrieveOutcome(v, ev) ==
    LET origin == ev.headers.origin
        id == sessionIdOf(v, ev)
    IN CASE v = "raw" ->
            IF ev.httpMethod = "OPTIONS"
            THEN [call |-> FALSE, resp |-> EmptyResponse(204, cors(origin))]
            ELSE IF ev.httpMethod # "GET"
            THEN [call |-> FALSE, resp |-> TextResponse(405, cors(origin), "Method Not Allowed")]
            ELSE IF ~IsTruthy(id)
            THEN [call |-> FALSE, resp |-> TextResponse(400, cors(origin), "Missing session_id")]
            ELSE [call |-> TRUE, params |-> RetrieveCall(id, expandOf(v))]
         [] v = "trimmed" ->
            IF ev.httpMethod # "GET"
            THEN [call |-> FALSE, resp |-> TextResponse(405, NoHeaders, "Method Not Allowed")]
            ELSE IF Threw(id)
            THEN [call |-> FALSE, resp |-> Uncaught(id)]
            ELSE IF ~IsTruthy(id)
            THEN [call |-> FALSE, resp |-> TextResponse(400, NoHeaders, "Missing session_id")]
            ELSE [call |-> TRUE, params |-> RetrieveCall(id, expandOf(v))]
         [] v = "sanitized" ->
            IF ev.httpMethod = "OPTIONS"
            THEN [call |-> FALSE,
                  resp |-> EmptyResponse(204, corsHeadersGet(origin, ev.headers.reqHdrs))]
            ELSE IF ev.httpMethod # "GET"
            THEN [call |-> FALSE,
                  resp |-> TextResponse(405, corsHeadersGet(origin, ""), "Method Not Allowed")]
            ELSE IF ~IsTruthy(id)
            THEN [call |-> FALSE,
                  resp |-> [statusCode |-> 400, headers |-> corsHeadersGet(origin, ""),
                            kind |-> "json", text |-> "",
                            json |-> [error |-> Msg("Missing session_id", <<>>)]]]
            ELSE [call |-> TRUE, params |-> RetrieveCall(id, expandOf(v))]

CL == <<"C", "L", "-">>

\* `CL-${String(session.id).slice(-n).toUpperCase()}`
SynthesizedRef(id, n) == Str(CL \o ToUpperCase(SliceLast(StringOf(id), n)))

\* the third generation's orderRef
orderRefOf(session) ==
    Either(Either(Dot(session, "client_reference_id"),
                  OptDot(Dot(session, "metadata"), "order_ref")),
           SynthesizedRef(session.id, 8))

\* the second generation's orderNumber
orderNumberOf(session) ==
    Either(OptDot(Dot(session, "metadata"), "order_number"), Dot(session, "id"))

\* session.line_items?.data || []
LineItemData(session) == Either(OptDot(Dot(session, "line_items"), "data"), Array(<<>>)).array

\* one element of the third generation's items
SanitizedItem(session, li) ==
    [ description |-> Dot(li, "description"),
      quantity |-> Dot(li, "quantity"),
      unit_amount |-> Coalesce(OptDot(Dot(li, "price"), "unit_amount"), Null),
      amount_total |-> Dot(li, "amount_total"),
      currency |-> Either(Dot(li, "currency"), Dot(session, "currency")),
      image |-> Either(OptFirst(OptDot(OptDot(Dot(li, "price"), "product"), "images")), Null) ]

\* SanitizedShipping as it would be with shipping_cost read without the guard
SanitizedShippingUnguarded(session) ==
    [ amount_total |-> Coalesce(Dot(Dot(session, "shipping_cost"), "amount_total"), Num(0)),
      rate_name |->
        Either(OptDot(OptDot(Dot(session, "shipping_cost"), "shipping_rate"), "display_name"),
               Null) ]

\* the third generation's shipping
SanitizedShipping(session) ==
    [ amount_total |-> Coalesce(OptDot(Dot(session, "shipping_cost"), "amount_total"), Num(0)),
      rate_name |->
        Either(OptDot(OptDot(Dot(session, "shipping_cost"), "shipping_rate"), "display_name"),
               Null) ]

\* the third generation's totals
SanitizedTotals(session) ==
    [ currency |-> Dot(session, "currency"),
      subtotal |-> Coalesce(Dot(session, "amount_subtotal"), Null),
      shipping |-> SanitizedShipping(session).amount_total,
      tax |-> Coalesce(OptDot(Dot(session, "total_details"), "amount_tax"), Num(0)),
      discount |-> Coalesce(OptDot(Dot(session, "total_details"), "amount_discount"), Num(0)),
      total |-> Coalesce(Dot(session, "amount_total"), Null) ]

\* the third generation's payload
SanitizedPayload(session) ==
    [ orderRef |-> orderRefOf(session),
      sessionId |-> Dot(session, "id"),
      paymentIntentId |-> Either(OptDot(Dot(session, "payment_intent"), "id"), Null),
      email |-> Either(OptDot(Dot(session, "customer_details"), "email"), Null),
      shipping_address |-> Either(OptDot(Dot(session, "customer_details"), "address"), Null),
      shipping |-> SanitizedShipping(session),
      items |-> [i \in 1..Len(LineItemData(session)) |->
                    SanitizedItem(session, LineItemData(session)[i])],
      totals |-> SanitizedTotals(session) ]

\* one element of the second generation's items
TrimmedItem(li) ==
    [ name |-> Either(Either(Dot(li, "description"),
                             OptDot(OptDot(Dot(li, "price"), "product"), "name")),
                      Txt("Item")),
      quantity |-> Either(Dot(li, "quantity"), Num(1)),
      unit_amount |-> Either(OptDot(Dot(li, "price"), "unit_amount"), Num(0)),
      amount_total |-> Either(Dot(li, "amount_total"), Num(0)),
      image |-> LET images == OptDot(OptDot(Dot(li, "price"), "product"), "images")
                IN Either(IF IsTruthy(images) THEN OptFirst(images) ELSE images, Undef) ]

\* the second generation's payload
TrimmedPayload(session) ==
    LET shippingAmount == Either(OptDot(Dot(session, "shipping_cost"), "amount_total"), Num(0))
        rate == OptDot(Dot(session, "shipping_cost"), "shipping_rate")
        shippingLabel ==
            Either(Either(OptDot(rate, "display_name"), OptDot(rate, "id")),
                   IF Greater(shippingAmount, Num(0)) THEN Txt("Shipping")
                   ELSE Txt("Free Shipping"))
    IN [ orderRef |-> orderNumberOf(session),
         currency |-> Str(ToUpperCase(Either(Dot(session, "currency"),
                                             Str(<<"g", "b", "p">>)).s)),
         subtotal |-> Either(Dot(session, "amount_subtotal"), Num(0)),
         shipping |-> [label |-> shippingLabel, amount |-> shippingAmount],
         total |-> Either(Dot(session, "amount_total"), Num(0)),
         items |-> [i \in 1..Len(LineItemData(session)) |->
                       TrimmedItem(LineItemData(session)[i])] ]

\* the object the generation v stringifies into the body of its 200
PayloadOf(v, session) ==
    CASE v = "raw" -> session
      [] v = "trimmed" -> TrimmedPayload(session)
      [] v = "sanitized" -> SanitizedPayload(session)

\* the values a payload is made of, its items apart
PayloadParts(v, p) ==
    CASE v = "raw" -> <<>>
      [] v = "trimmed" ->
           <<p.orderRef, p.subtotal, p.shipping.label, p.shipping.amount, p.total>>
      [] v = "sanitized" ->
           <<p.orderRef, p.paymentIntentId, p.email, p.shipping_address,
             p.shipping.amount_total, p.shipping.rate_name, p.totals.subtotal,
             p.totals.tax, p.totals.discount, p.totals.total>>

\* composing the payload threw: some property read in it was a read of null
\* or undefined
PayloadThrew(v, p) ==
    \/ \E k \in 1..Len(PayloadParts(v, p)) : Threw(PayloadParts(v, p)[k])
    \/ /\ v # "raw"
       /\ \E i \in 1..Len(p.items) :
            \E f \in DOMAIN p.items[i] : Threw(p.items[i][f])

\* RetrieveResponse as it would be if a failed fetch were answered with an
\* empty receipt
RetrieveResponsePartial(v, origin, answer) ==
    LET p == PayloadOf(v, answer.session)
    IN IF answer.ok /\ ~PayloadThrew(v, p)
       THEN CASE v = "raw" -> JsonResponse(200, cors(origin), p)
              [] v = "trimmed" -> JsonResponse(200, NoHeaders, p)
              [] v = "sanitized" -> JsonResponse(200, corsHeadersGet(origin, ""), p)
       ELSE JsonResponse(200, NoHeaders, [orderRef |-> Null, items |-> <<>>])

\* the response after the awaited retrieve: the 200 with the payload, or what
\* the catch block returns for the error err
RetrieveResponse(v, origin, answer) ==
    LET p == PayloadOf(v, answer.session)
        err == IF ~answer.ok THEN answer.message
               ELSE Msg("Cannot read properties of null", <<>>)
    IN IF answer.ok /\ ~PayloadThrew(v, p)
       THEN CASE v = "raw" -> JsonResponse(200, cors(origin), p)
              [] v = "trimmed" -> JsonResponse(200, NoHeaders, p)
              [] v = "sanitized" -> JsonResponse(200, corsHeadersGet(origin, ""), p)
       ELSE CASE v = "raw" -> JsonResponse(500, cors(origin), [error |-> err])
              [] v = "trimmed" -> TextResponse(500, NoHeaders, "Failed to retrieve session")
              [] v = "sanitized" ->
                   JsonResponse(500, corsHeadersGet(origin, ""), [error |-> err])

----------------------------------------------------------------------------
(* Session objects, as the processor returns them *)

MkSession(id, cri, md, sub, tot, sc, td, pi, cd, ce, li) ==
    [ id |-> id, client_reference_id |-> cri, metadata |-> md,
      currency |-> Str(<<"g", "b", "p">>),
      amount_subtotal |-> sub, amount_total |-> tot,
      shipping_cost |-> sc, total_details |-> td, payment_intent |-> pi,
      customer_details |-> cd, customer_email |-> ce, line_items |-> li ]

LongId == Str(<<"c", "s", "_", "t", "e", "s", "t", "_", "a", "1", "b", "2", "c", "3">>)
ShortId == Str(<<"c", "s", "_", "x">>)
UnknownId == Str(<<"c", "s", "_", "n", "o", "n", "e">>)

Metadata(ref, number) == [order_ref |-> ref, order_number |-> number]

ShippingRate == [id |-> Txt("shr_uk_standard"), display_name |-> Txt("Royal Mail 48")]
ShippingCosts ==
    { Null,
      [amount_total |-> Num(0), shipping_rate |-> Null],
      [amount_total |-> Num(399), shipping_rate |-> Txt("shr_uk_standard")],
      [amount_total |-> Num(399), shipping_rate |-> ShippingRate] }

TotalDetails ==
    { Null, [amount_tax |-> Num(120), amount_discount |-> Num(500), amount_shipping |-> Num(399)] }

PaymentIntents == { Null, Txt("pi_1"), [id |-> Txt("pi_1")] }

Address == [line1 |-> Txt("1 High Street"), city |-> Txt("Leeds"), country |-> Txt("GB")]
Customer == [email |-> Txt("buyer@example.com"), name |-> Txt("A Buyer"), address |-> Address]
CustomerDetails ==
    { Null, [email |-> Null, name |-> Null, address |-> Null], Customer }

ProductObject(images) ==
    [name |-> Txt("Camo Hoodie"), images |-> images, metadata |-> [base_id |-> Txt("5")]]
Prices ==
    { Null,
      [unit_amount |-> Null, product |-> Null],
      [unit_amount |-> Num(5999), product |-> Txt("prod_5")],
      [unit_amount |-> Num(5999), product |-> ProductObject(Undef)],
      [unit_amount |-> Num(5999), product |-> ProductObject(Array(<<Txt("img/camo.jpg")>>))] }

SessionLine(price) ==
    [ description |-> Txt("Camo Hoodie - M"), quantity |-> Num(1),
      amount_total |-> Num(5999), currency |-> Str(<<"g", "b", "p">>), price |-> price ]

\* line_items: not expanded, expanded without data, and expanded lists
LineItemLists ==
    { Undef, [data |-> Undef] }
    \cup { [data |-> Array(lis)] :
             lis \in { <<>> } \cup { [i \in 1..n |-> SessionLine(p)] :
                                        n \in 1..(MaxLineItems - 1), p \in Prices }
                     \cup { [i \in 1..MaxLineItems |->
                               SessionLine(IF i = 1 THEN Null
                                           ELSE [unit_amount |-> Num(5999),
                                                 product |-> ProductObject(Array(<<>>))])] } }

Ref(x) == Txt(newOrderNumber("2025-01-15", x))

FullLines == [data |-> Array(<<SessionLine([unit_amount |-> Num(5999),
                                            product |-> ProductObject(Undef)])>>)]

\* sessions that differ in where an order reference is found
RefSessions ==
    { MkSession(id, cri, md, Num(5999), Num(6398),
                [amount_total |-> Num(399), shipping_rate |-> ShippingRate],
                Null, Txt("pi_1"), Customer, Null, FullLines) :
        id \in {LongId, ShortId},
        cri \in {Null, Str(<<>>), Ref("K3F9Q")},
        md \in { Null, Metadata(Undef, Undef), Metadata(Ref("REF01"), Undef),
                 Metadata(Undef, Ref("NUM02")), Metadata(Ref("REF01"), Ref("NUM02")),
                 Metadata(Undef, Ref("K3F9Q")) } }

\* sessions that differ in which optional fields they have
OptionalSessions ==
    { MkSession(LongId, Ref("K3F9Q"), md, amt[1], amt[2], sc, td, pi, cd, Null, li) :
        md \in { Null, Metadata(Undef, Ref("K3F9Q")) },
        amt \in { <<Null, Null>>, <<Num(5999), Num(6398)>> },
        sc \in ShippingCosts, td \in TotalDetails, pi \in PaymentIntents,
        cd \in CustomerDetails, li \in LineItemLists }

SessionObjects == RefSessions \cup OptionalSessions

\* the session object the processor holds for a session the creator had it
\* create: the correlation id and the metadata are stored as they were sent
ObjectOf(rec) ==
    MkSession(Str(rec.id), Txt(rec.params.client_reference_id),
              Metadata(Undef, Txt(rec.params.metadata.order_number)),
              Subtotal(rec.params.line_items), Subtotal(rec.params.line_items),
              [amount_total |-> Num(0), shipping_rate |-> Txt("shr_free_uk")],
              [amount_tax |-> Num(0), amount_discount |-> Num(0), amount_shipping |-> Num(0)],
              Txt("pi_1"), Customer, Null, FullLines)

\* every session object the processor holds
Held == account \cup { ObjectOf(sessions[i]) : i \in 1..Len(sessions) }

----------------------------------------------------------------------------
(* The retriever's state machine *)

Retrievers == {"raw", "trimmed", "sanitized"}

Query(id) == [session_id |-> id]

RetrieveEvent(method, origin, reqHdrs, query) ==
    [ httpMethod |-> method,
      headers |-> [origin |-> origin, reqHdrs |-> reqHdrs],
      queryStringParameters |-> query ]

\* query strings: none at all, one without session_id, an empty session_id,
\* the id of a held session and an id the processor does not know
Queries == { Null, Query(Undef), Query(Str(<<>>)), Query(UnknownId) }
           \cup { Query(id) : id \in {LongId, ShortId} }

RetrieveEvents ==
    { RetrieveEvent("GET", "", "", q) : q \in Queries }
    \cup { RetrieveEvent("POST", o, "", Null) : o \in {"", "https://shajidissa.github.io"} }
    \cup { RetrieveEvent("OPTIONS", o, h, Null) :
             o \in Origins, h \in {"", "x-requested-with"} }
    \cup { RetrieveEvent("GET", "https://shajidissa.github.io", "", Query(LongId)) }

InitRetrieve ==
    /\ env \in {MkEnv(Undef, RateKeys)}
    /\ pc = "idle"
    /\ ver = "sanitized"
    /\ event = NoEvent
    /\ sent = None
    /\ reply = None
    /\ resp = NoResponse
    /\ calls = 0
    /\ sessions = <<>>
    /\ invocations = 0
    /\ okCount = 0
    /\ account \in { {s} : s \in SessionObjects }
    /\ local = None
    /\ emails = <<>>
    /\ parked = None

\* The router invokes the retriever with event ev: the handler runs up to its
\* await, or to its return.
InvokeRetriever(v, ev) ==
    /\ pc = "idle"
    /\ LET out == RetrieveOutcome(v, ev)
       IN IF out.call
          THEN /\ sent' = out.params
               /\ calls' = 1
               /\ pc' = "awaiting"
               /\ resp' = NoResponse
          ELSE /\ sent' = None
               /\ calls' = 0
               /\ pc' = "done"
               /\ resp' = out.resp
    /\ ver' = v
    /\ event' = ev
    /\ reply' = None
    /\ invocations' = invocations + 1
    /\ UNCHANGED <<env, sessions, okCount, account, parked, local, emails>>

RetrieveErrors == {"An error occurred with our connection to Stripe"}

\* The processor answers the retrieve call with the session it holds under the id.
RetrieveSucceeds ==
    /\ pc = "awaiting"
    /\ ver \in Retrievers
    /\ \E s \in Held :
         /\ s.id = sent.id
         /\ reply' = [ok |-> TRUE, session |-> s]
    /\ pc' = "replied"
    /\ UNCHANGED <<env, ver, event, sent, resp, calls, sessions, invocations, okCount,
                   account, parked, local, emails>>

\* The processor answers the retrieve call with an error: it holds no such
\* session, or the call failed.
RetrieveFails ==
    /\ pc = "awaiting"
    /\ ver \in Retrievers
    /\ \/ /\ \A s \in Held : s.id # sent.id
          /\ reply' = [ok |-> FALSE, message |-> Msg("No such checkout.session: ", sent.id.s)]
       \/ \E m \in RetrieveErrors : reply' = [ok |-> FALSE, message |-> Msg(m, <<>>)]
    /\ pc' = "replied"
    /\ UNCHANGED <<env, ver, event, sent, resp, calls, sessions, invocations, okCount,
                   account, parked, local, emails>>

\* The retriever resumes after the await and returns.
RetrieveResume ==
    /\ pc = "replied"
    /\ ver \in Retrievers
    /\ resp' = RetrieveResponse(ver, event.headers.origin, reply)
    /\ okCount' = IF resp'.statusCode = 200 THEN okCount + 1 ELSE okCount
    /\ pc' = "done"
    /\ UNCHANGED <<env, ver, event, sent, reply, calls, sessions, invocations,
                   account, parked, local, emails>>

\* one invocation of the retriever, with any event
InvokeAnyRetriever ==
    invocations = 0 /\ \E v \in Retrievers, ev \in RetrieveEvents : InvokeRetriever(v, ev)

NextRetrieve ==
    InvokeAnyRetriever \/ RetrieveSucceeds \/ RetrieveFails \/ RetrieveResume \/ Finish

SpecRetrieve == InitRetrieve /\ [][NextRetrieve]_vars

----------------------------------------------------------------------------
(* The webhook handler: src/netlify/functions/stripe-webhook.js ("short")  *)
(* and src/unnamed/part_001 ("polished")                                   *)

Webhooks == {"short", "polished"}

\* process.env.STRIPE_WEBHOOK_SECRET of the deployment
STRIPE_WEBHOOK_SECRET == "whsec_deployed"

\* A request body is a string: the text of an event document, as it is or
\* base64-encoded. A buffer holds the bytes of a document, other bytes, or none.
BodyText(encoding, doc) == Txt([encoding |-> encoding, doc |-> doc])
Bytes(form, doc) == [form |-> form, doc |-> doc]

\* Buffer.from(text, encoding): the document's bytes when the text is decoded
\* the way it was encoded
BufferFrom(text, encoding) ==
    IF IsNullish(text) THEN TypeError
    ELSE IF text.s = <<>> THEN Bytes("empty", Null)
    ELSE IF text.s[1].encoding = encoding THEN Bytes("plain", text.s[1].doc)
    ELSE Bytes("garbled", text.s[1].doc)

\* the raw body the handler hands to the verification
rawOf(v, ev) ==
    IF ev.isBase64Encoded THEN BufferFrom(ev.body, "base64")
    ELSE IF v = "short" THEN BufferFrom(ev.body, "utf8")
    ELSE BufferFrom(Either(ev.body, Str(<<>>)), "utf8")

\* the stripe-signature header made by whoever holds secret, over doc
Sign(doc, secret) == [signed |-> doc, secret |-> secret]

\* stripe.webhooks.constructEvent(raw, sig, secret): the signature in the
\* header must be the one the secret gives for the raw bytes
Verifies(raw, sig, secret) ==
    /\ IsTruthy(sig)
    /\ sig.secret = secret
    /\ raw.form = "plain"
    /\ sig.signed = raw.doc

\* what constructEvent throws, if anything; it parses the payload only after
\* the signature has been found to match
constructEventError(raw, sig, secret) ==
    IF ~IsTruthy(sig) THEN "No stripe-signature header value was provided."
    ELSE IF ~Verifies(raw, sig, secret)
    THEN "No signatures found matching the expected signature for payload."
    ELSE ""

constructEvent(raw, sig, secret) == raw.doc

COMPLETED == "checkout.session.completed"

\* isCompleted as it would be if every checkout-session event were handled
isCompletedOrExpired(evt) == evt.type \in {COMPLETED, "checkout.session.expired"}

\* evt.type === 'checkout.session.completed'
isCompleted(evt) == evt.type = COMPLETED

EventDoc(type, object) == [type |-> type, data |-> [object |-> object]]

\* the session as an event carries it: nothing is expanded
Slim(s) ==
    [ s EXCEPT
        !.line_items = Undef,
        !.payment_intent = IF "id" \in DOMAIN @ THEN @.id ELSE @,
        !.shipping_cost =
            IF IsNullish(@) THEN @
            ELSE [@ EXCEPT !.shipping_rate = IF "id" \in DOMAIN @ THEN @.id ELSE @] ]

\* session.customer_details?.email || session.customer_email || null
emailOf(session) ==
    Either(Either(OptDot(Dot(session, "customer_details"), "email"),
                  Dot(session, "customer_email")),
           Null)

\* the earlier handler's orderNumber
shortOrderNumber(session) == SynthesizedRef(session.id, 5)

\* the later handler's orderRef
polishedOrderRef(session) ==
    Either(Either(Either(Dot(session, "client_reference_id"),
                         OptDot(Dot(session, "metadata"), "order_ref")),
                  OptDot(Dot(session, "metadata"), "order_number")),
           SynthesizedRef(session.id, 8))

\* a - b on numbers; NaN when either side is not a number
Minus(a, b) ==
    IF ToNumber(a).t = "nan" \/ ToNumber(b).t = "nan" THEN NaN ELSE Num(a.n - b.n)

\* the money lines of the earlier handler's email
ShortMoney(session) ==
    LET shippingAmount ==
            Coalesce(Coalesce(OptDot(Dot(session, "total_details"), "amount_shipping"),
                              OptDot(Dot(session, "shipping_cost"), "amount_total")),
                     Num(0))
    IN [ subtotal |-> Coalesce(Dot(session, "amount_subtotal"),
                               Minus(Dot(session, "amount_total"), shippingAmount)),
         shipping |-> shippingAmount,
         tax |-> Undef,
         discount |-> Undef,
         total |-> Dot(session, "amount_total") ]

\* the money lines of the later handler's email
PolishedMoney(session) ==
    [ subtotal |-> Coalesce(Dot(session, "amount_subtotal"), Num(0)),
      shipping |-> Coalesce(OptDot(Dot(session, "shipping_cost"), "amount_total"), Num(0)),
      tax |-> Coalesce(OptDot(Dot(session, "total_details"), "amount_tax"), Num(0)),
      discount |-> Coalesce(OptDot(Dot(session, "total_details"), "amount_discount"), Num(0)),
      total |-> Coalesce(Dot(session, "amount_total"), Num(0)) ]

\* what the handler keeps across its awaits
Local(session, orderRef, email, label, lines) ==
    [ session |-> session, orderRef |-> orderRef, email |-> email,
      shippingLabel |-> label, lines |-> lines ]

\* Message as it would be without the copy to the shop's own address
MessageNoCopy(v, loc) ==
    [ from |-> "Clarity <sales@clarity-clothing.com>",
      to |-> loc.email,
      cc |-> "",
      reply_to |-> "sales@clarity-clothing.com",
      orderRef |-> loc.orderRef,
      shippingLabel |-> loc.shippingLabel,
      money |-> IF v = "short" THEN ShortMoney(loc.session) ELSE PolishedMoney(loc.session),
      lines |-> Len(loc.lines) ]

\* the argument of resend.emails.send (the markup is left out of the model)
Message(v, loc) ==
    [ from |-> "Clarity <sales@clarity-clothing.com>",
      to |-> loc.email,
      cc |-> "sales@clarity-clothing.com",
      reply_to |-> "sales@clarity-clothing.com",
      orderRef |-> loc.orderRef,
      shippingLabel |-> loc.shippingLabel,
      money |-> IF v = "short" THEN ShortMoney(loc.session) ELSE PolishedMoney(loc.session),
      lines |-> Len(loc.lines) ]

ListCall(id) == [op |-> "checkout.sessions.listLineItems", id |-> id, limit |-> 100]
RateCall(id) == [op |-> "shippingRates.retrieve", id |-> id]
SendCall(message) == [op |-> "emails.send", message |-> message]

Ack(text) == TextResponse(200, NoHeaders, text)

\* EmailStep as it would be if the handler skipped the send for an order it
\* has already written to
EmailStepOnce(v, loc) ==
    IF IsTruthy(loc.email)
       /\ \A i \in 1..Len(emails) : emails[i].message.orderRef # loc.orderRef
    THEN [pc |-> "mailing", sent |-> SendCall(Message(v, loc)), resp |-> NoResponse,
          local |-> loc]
    ELSE [pc |-> "done", sent |-> None, resp |-> Ack("ok"), local |-> None]

\* if (email) { try { await resend.emails.send(...) } ... }: the send call, or
\* the acknowledgement when there is no address to send to
EmailStep(v, loc) ==
    IF IsTruthy(loc.email)
    THEN [pc |-> "mailing", sent |-> SendCall(Message(v, loc)), resp |-> NoResponse,
          local |-> loc]
    ELSE [pc |-> "done", sent |-> None, resp |-> Ack("ok"), local |-> None]

\* What the webhook handler does before its first await: it throws, it
\* returns a response, or it issues its first processor call.
WebhookOutcome(v, ev) ==
    LET sig == ev.headers.stripeSignature
        raw == rawOf(v, ev)
        err == constructEventError(raw, sig, STRIPE_WEBHOOK_SECRET)
        evt == constructEvent(raw, sig, STRIPE_WEBHOOK_SECRET)
        session == evt.data.object
    IN IF Threw(raw)
       THEN [call |-> FALSE, resp |-> Uncaught(raw)]
       ELSE IF err # ""
       THEN [call |-> FALSE,
             resp |-> [statusCode |-> 400, headers |-> NoHeaders, kind |-> "text",
                       text |-> "Webhook Error: ", json |-> err]]
       ELSE IF ~isCompleted(evt)
       THEN [call |-> FALSE, resp |-> Ack(IF v = "short" THEN "ok" ELSE "Ignored")]
       ELSE IF v = "short"
       THEN [call |-> TRUE, params |-> ListCall(session.id),
             local |-> Local(session, shortOrderNumber(session), emailOf(session),
                             Txt("Shipping"), <<>>)]
       ELSE [call |-> TRUE,
             params |-> RetrieveCall(session.id,
                                     {"line_items.data.price.product",
                                      "shipping_cost.shipping_rate", "payment_intent",
                                      "customer_details"}),
             local |-> Local(session, Undef, Undef, Undef, <<>>)]

----------------------------------------------------------------------------
(* The webhook handler's state machine *)

WebhookEvent(sig, body, base64) ==
    [ httpMethod |-> "POST",
      headers |-> [stripeSignature |-> sig],
      body |-> body,
      isBase64Encoded |-> base64 ]

\* The router invokes the webhook handler with event ev: the handler runs up
\* to its first await, or to its return.
StartWebhook(v, ev) ==
    /\ pc = "idle"
    /\ LET out == WebhookOutcome(v, ev)
       IN IF out.call
          THEN /\ sent' = out.params
               /\ calls' = 1
               /\ pc' = "awaiting"
               /\ resp' = NoResponse
               /\ local' = out.local
          ELSE /\ sent' = None
               /\ calls' = 0
               /\ pc' = "done"
               /\ resp' = out.resp
               /\ local' = None
    /\ ver' = v
    /\ event' = ev
    /\ reply' = None
    /\ UNCHANGED <<env, sessions, okCount, account, parked, emails>>

\* one more invocation of the webhook handler
InvokeWebhook(v, ev) ==
    /\ StartWebhook(v, ev)
    /\ invocations' = invocations + 1

\* the handler goes on to the email step with the locals loc
GoToEmailStep(loc, n) ==
    LET step == EmailStep(ver, loc)
    IN /\ pc' = step.pc
       /\ sent' = IF step.pc = "done" THEN sent ELSE step.sent
       /\ resp' = step.resp
       /\ local' = step.local
       /\ calls' = n
       /\ okCount' = IF step.pc = "done" THEN okCount + 1 ELSE okCount

\* WebhookFetchSucceeds as it would be if the later handler, too, looked the
\* shipping rate up with a call of its own
WebhookFetchSucceedsRateLookup ==
    /\ pc = "awaiting"
    /\ ver \in Webhooks
    /\ \E s \in Held :
         /\ s.id = sent.id
         /\ reply' = IF ver = "short"
                     THEN [ok |-> TRUE, items |-> [data |-> Array(LineItemData(s))]]
                     ELSE [ok |-> TRUE, session |-> s]
         /\ LET loc == IF ver = "short" THEN [local EXCEPT !.lines = LineItemData(s)]
                        ELSE Local(s, polishedOrderRef(s), emailOf(s), Txt("Shipping"),
                                   LineItemData(s))
                 rateId == OptDot(Dot(Slim(s), "shipping_cost"), "shipping_rate")
            IN IF IsTruthy(rateId)
               THEN /\ pc' = "rating"
                    /\ sent' = RateCall(rateId)
                    /\ calls' = calls + 1
                    /\ local' = loc
                    /\ UNCHANGED <<resp, okCount>>
               ELSE GoToEmailStep(loc, calls)
    /\ UNCHANGED <<env, ver, event, sessions, invocations, account, parked, emails>>

\* The processor answers the handler's first call: the line items of the
\* session (earlier handler) or the session itself (later handler). The
\* handler goes on to its next await, or returns.
WebhookFetchSucceeds ==
    /\ pc = "awaiting"
    /\ ver \in Webhooks
    /\ \E s \in Held :
         /\ s.id = sent.id
         /\ reply' = IF ver = "short"
                     THEN [ok |-> TRUE, items |-> [data |-> Array(LineItemData(s))]]
                     ELSE [ok |-> TRUE, session |-> s]
         /\ IF ver = "short"
            THEN LET loc == [local EXCEPT !.lines = LineItemData(s)]
                     rateId == OptDot(Dot(local.session, "shipping_cost"), "shipping_rate")
                 IN IF IsTruthy(rateId)
                    THEN /\ pc' = "rating"
                         /\ sent' = RateCall(rateId)
                         /\ calls' = calls + 1
                         /\ local' = loc
                         /\ UNCHANGED <<resp, okCount>>
                    ELSE GoToEmailStep(loc, calls)
            ELSE GoToEmailStep(
                     Local(s, polishedOrderRef(s), emailOf(s),
                           Either(OptDot(OptDot(Dot(s, "shipping_cost"), "shipping_rate"),
                                         "display_name"),
                                  Txt("Shipping")),
                           LineItemData(s)),
                     calls)
    /\ UNCHANGED <<env, ver, event, sessions, invocations, account, parked, emails>>

\* The processor answers the handler's first call with an error: the earlier
\* handler awaits it outside any try, the later one inside its outer try.
WebhookFetchFails ==
    /\ pc = "awaiting"
    /\ ver \in Webhooks
    /\ \E m \in RetrieveErrors :
         /\ reply' = [ok |-> FALSE, message |-> Msg(m, <<>>)]
         /\ resp' = IF ver = "short" THEN Uncaught(Msg(m, <<>>))
                    ELSE TextResponse(500, NoHeaders, "Internal Error")
    /\ pc' = "done"
    /\ local' = None
    /\ UNCHANGED <<env, ver, event, sent, calls, sessions, invocations, okCount,
                   account, parked, emails>>

RateNames == {Undef, Txt("Royal Mail 48")}

\* The processor answers the earlier handler's shipping-rate lookup.
RateArrives ==
    /\ pc = "rating"
    /\ \E name \in RateNames :
         /\ reply' = [ok |-> TRUE, rate |-> [id |-> sent.id, display_name |-> name]]
         /\ GoToEmailStep(
                [local EXCEPT !.shippingLabel = IF IsTruthy(name) THEN name ELSE @],
                calls)
    /\ UNCHANGED <<env, ver, event, sessions, invocations, account, parked, emails>>

\* RateFails as it would be if the lookup were awaited outside its try
RateFailsUncaught ==
    /\ pc = "rating"
    /\ \E m \in RetrieveErrors :
         /\ reply' = [ok |-> FALSE, message |-> Msg(m, <<>>)]
         /\ resp' = Uncaught(Msg(m, <<>>))
    /\ pc' = "done"
    /\ local' = None
    /\ UNCHANGED <<sent, calls, okCount>>
    /\ UNCHANGED <<env, ver, event, sessions, invocations, account, parked, emails>>

\* The shipping-rate lookup fails: the handler keeps the label it had.
RateFails ==
    /\ pc = "rating"
    /\ \E m \in RetrieveErrors : reply' = [ok |-> FALSE, message |-> Msg(m, <<>>)]
    /\ GoToEmailStep(local, calls)
    /\ UNCHANGED <<env, ver, event, sessions, invocations, account, parked, emails>>

\* The email service accepts the message; the handler acknowledges.
EmailAccepted ==
    /\ pc = "mailing"
    /\ emails' = Append(emails, [message |-> sent.message, ok |-> TRUE])
    /\ resp' = Ack("ok")
    /\ pc' = "done"
    /\ local' = None
    /\ okCount' = okCount + 1
    /\ UNCHANGED <<env, ver, event, sent, reply, calls, sessions, invocations, account, parked>>

\* EmailRefused as it would be if the send were awaited outside its try
EmailRefusedUncaught ==
    /\ pc = "mailing"
    /\ emails' = Append(emails, [message |-> sent.message, ok |-> FALSE])
    /\ resp' = IF ver = "short" THEN Uncaught(Msg("Email send failed", <<>>))
               ELSE TextResponse(500, NoHeaders, "Internal Error")
    /\ pc' = "done"
    /\ local' = None
    /\ okCount' = okCount
    /\ UNCHANGED <<env, ver, event, sent, reply, calls, sessions, invocations, account, parked>>

\* The email service refuses the message or cannot be reached: the handler
\* logs the failure and acknowledges.
EmailRefused ==
    /\ pc = "mailing"
    /\ emails' = Append(emails, [message |-> sent.message, ok |-> FALSE])
    /\ resp' = Ack("ok")
    /\ pc' = "done"
    /\ local' = None
    /\ okCount' = okCount + 1
    /\ UNCHANGED <<env, ver, event, sent, reply, calls, sessions, invocations, account, parked>>

\* documents the processor signs: a completed checkout of session s, the
\* expiry of s, and an event about something else
DocsAbout(s) ==
    { EventDoc(COMPLETED, Slim(s)),
      EventDoc("checkout.session.expired", Slim(s)),
      EventDoc("payment_intent.succeeded", [id |-> Txt("pi_1")]) }

\* what a request can carry for a document the processor signed: the
\* document and its signature, as text or base64; the document without a
\* signature, with a signature made with another secret, or with the
\* signature of another document; and no body at all, signed or not
DeliveriesOf(doc, other) ==
    { WebhookEvent(Sign(doc, STRIPE_WEBHOOK_SECRET), BodyText("utf8", doc), FALSE),
      WebhookEvent(Sign(doc, STRIPE_WEBHOOK_SECRET), BodyText("base64", doc), TRUE),
      WebhookEvent(Sign(doc, STRIPE_WEBHOOK_SECRET), BodyText("base64", doc), FALSE),
      WebhookEvent(Undef, BodyText("utf8", doc), FALSE),
      WebhookEvent(Sign(doc, "whsec_guessed"), BodyText("utf8", doc), FALSE),
      WebhookEvent(Sign(other, STRIPE_WEBHOOK_SECRET), BodyText("utf8", doc), FALSE),
      WebhookEvent(Sign(doc, STRIPE_WEBHOOK_SECRET), Null, FALSE),
      WebhookEvent(Sign(doc, STRIPE_WEBHOOK_SECRET), Str(<<>>), FALSE),
      WebhookEvent(Undef, Null, FALSE) }

\* the requests that can arrive about the held session s
WebhookEventsAbout(s) ==
    UNION { DeliveriesOf(doc, EventDoc("payment_intent.succeeded", [id |-> Txt("pi_1")])) :
              doc \in DocsAbout(s) }

\* a browser's preflight request: no body, no signature
WebhookPreflights ==
    { [ httpMethod |-> "OPTIONS",
        headers |-> [stripeSignature |-> Undef, origin |-> o, reqHdrs |-> h],
        body |-> Null,
        isBase64Encoded |-> FALSE ] :
        o \in Origins, h \in {"", "x-requested-with"} }

\* sessions the webhook specification starts from
WebhookSessions ==
    RefSessions
    \cup { s \in OptionalSessions :
             /\ s.metadata # Null
             /\ s.payment_intent = Txt("pi_1")
             /\ s.line_items \in {Undef, FullLines}
             /\ s.amount_total # Null }

InitWebhook ==
    /\ env \in {MkEnv(Undef, RateKeys)}
    /\ pc = "idle"
    /\ ver = "polished"
    /\ event = NoEvent
    /\ sent = None
    /\ reply = None
    /\ resp = NoResponse
    /\ calls = 0
    /\ sessions = <<>>
    /\ invocations = 0
    /\ okCount = 0
    /\ account \in { {s} : s \in WebhookSessions }
    /\ local = None
    /\ emails = <<>>
    /\ parked = None

\* one delivery to the webhook handler, about a held session
InvokeAnyWebhook ==
    /\ invocations = 0
    /\ \E v \in Webhooks, s \in account :
         \E ev \in WebhookEventsAbout(s) \cup WebhookPreflights : InvokeWebhook(v, ev)

NextWebhook ==
    \/ InvokeAnyWebhook
    \/ WebhookFetchSucceeds \/ WebhookFetchFails
    \/ RateArrives \/ RateFails
    \/ EmailAccepted \/ EmailRefused
    \/ Finish

SpecWebhook == InitWebhook /\ [][NextWebhook]_vars

----------------------------------------------------------------------------
(* Reading back: the retriever and the webhook handler with held sessions *)

\* the processor's delivery of the completed event of session s
CompletedDelivery(s) ==
    WebhookEvent(Sign(EventDoc(COMPLETED, Slim(s)), STRIPE_WEBHOOK_SECRET),
                 BodyText("utf8", EventDoc(COMPLETED, Slim(s))), FALSE)

\* the success page asks the retriever for session s
ReadBack(s) == \E v \in Retrievers : InvokeRetriever(v, RetrieveEvent("GET", "", "", Query(s.id)))

\* the processor delivers the completed event of session s to the webhook handler
Deliver(s) == \E v \in Webhooks : InvokeWebhook(v, CompletedDelivery(s))

ReaderSteps ==
    \/ RetrieveSucceeds \/ RetrieveFails \/ RetrieveResume
    \/ WebhookFetchSucceeds \/ WebhookFetchFails
    \/ RateArrives \/ RateFails
    \/ EmailAccepted \/ EmailRefused

\* sessions found in an account, read by either reader
InitRead ==
    /\ env \in {MkEnv(Undef, RateKeys)}
    /\ pc = "idle"
    /\ ver = "sanitized"
    /\ event = NoEvent
    /\ sent = None
    /\ reply = None
    /\ resp = NoResponse
    /\ calls = 0
    /\ sessions = <<>>
    /\ invocations = 0
    /\ okCount = 0
    /\ account \in { {s} : s \in RefSessions }
    /\ local = None
    /\ emails = <<>>
    /\ parked = None

ReadHeld == invocations < MaxReads /\ \E s \in account : ReadBack(s)
DeliverHeld == invocations < MaxReads /\ \E s \in account : Deliver(s)

NextRead == ReadHeld \/ DeliverHeld \/ ReaderSteps \/ Finish

SpecRead == InitRead /\ [][NextRead]_vars

\* the processor delivers the completed event of a held session again and again
NextDeliver ==
    \/ DeliverHeld
    \/ WebhookFetchSucceeds \/ WebhookFetchFails
    \/ RateArrives \/ RateFails
    \/ EmailAccepted \/ EmailRefused
    \/ Finish

SpecDeliver == InitRead /\ [][NextDeliver]_vars

\* sessions that differ in whether they name a shipping rate and a customer
\* address to write to
RedeliverSessions ==
    { MkSession(LongId, Ref("K3F9Q"), Metadata(Undef, Ref("K3F9Q")), Num(5999), Num(6398),
                sc, Null, Txt("pi_1"), cd, Null, FullLines) :
        sc \in ShippingCosts, cd \in CustomerDetails }

InitRedeliver ==
    /\ InitWebhook
    /\ account \in { {s} : s \in RedeliverSessions }

\* The processor delivers the completed event of a held session to the
\* deployed handler.
DeliverFirst ==
    /\ invocations = 0
    /\ \E s \in account : Deliver(s)

\* The processor delivers the event again as long as no delivery of it has
\* been answered 200; deliveries are counted up to MaxDeliveries.
Redeliver ==
    /\ invocations > 0
    /\ okCount = 0
    /\ \E s \in account : StartWebhook(ver, CompletedDelivery(s))
    /\ invocations' = IF invocations < MaxDeliveries THEN invocations + 1 ELSE invocations

NextRedeliver ==
    \/ DeliverFirst \/ Redeliver
    \/ WebhookFetchSucceeds \/ WebhookFetchFails
    \/ RateArrives \/ RateFails
    \/ EmailAccepted \/ EmailRefused
    \/ Finish

\* Every call the handler awaits is answered, one way or the other, and the
\* processor's own API does not fail the handler's fetch for ever.
SpecRedeliver ==
    /\ InitRedeliver
    /\ [][NextRedeliver]_vars
    /\ WF_vars(NextRedeliver)
    /\ SF_vars(WebhookFetchSucceeds)

----------------------------------------------------------------------------
(* Concurrent invocations: two invocations of the handlers in one process, *)
(* interleaved at their awaits                                             *)

\* the invocation that is running: its handler, its event, where it is, and
\* the handler's locals
Running ==
    [ pc |-> pc, ver |-> ver, event |-> event, sent |-> sent, reply |-> reply,
      resp |-> resp, calls |-> calls, local |-> local ]

\* no invocation
Fresh(v) ==
    [ pc |-> "idle", ver |-> v, event |-> NoEvent, sent |-> None, reply |-> None,
      resp |-> NoResponse, calls |-> 0, local |-> None ]

\* The event loop turns to the other invocation, or is free for a new one:
\* the running invocation is suspended where it is.
Switch ==
    /\ pc # "idle" \/ parked # None
    /\ LET next == IF parked = None THEN Fresh(ver) ELSE parked
       IN /\ pc' = next.pc
          /\ ver' = next.ver
          /\ event' = next.event
          /\ sent' = next.sent
          /\ reply' = next.reply
          /\ resp' = next.resp
          /\ calls' = next.calls
          /\ local' = next.local
    /\ parked' = IF pc = "idle" THEN None ELSE Running
    /\ UNCHANGED <<env, sessions, invocations, okCount, account, emails>>

\* events of two browsers, with the same cart
ConcurrentEvents ==
    { Event("POST", o, "", Nowhere,
            ObjectBody(<<Line(Str(<<"1">>), Num(2), Undef, Undef, Undef)>>, Undef)) :
        o \in {"", "https://shajidissa.github.io"} }

ConcurrentSessions ==
    { s \in RefSessions :
        /\ s.id = LongId
        /\ s.client_reference_id = Ref("K3F9Q")
        /\ s.metadata \in {Null, Metadata(Undef, Ref("NUM02"))} }

InitConcurrent ==
    /\ InitRead
    /\ account \in { {s} : s \in ConcurrentSessions }

\* a new invocation of any handler while fewer than MaxConcurrent were made
InvokeConcurrent ==
    /\ invocations < MaxConcurrent
    /\ \/ \E v \in Versions, ev \in ConcurrentEvents : Invoke(v, ev)
       \/ \E s \in account : ReadBack(s)
       \/ \E s \in account : Deliver(s)

NextConcurrent ==
    \/ InvokeConcurrent
    \/ Switch
    \/ CreateSucceeds \/ CreateFails \/ Resume
    \/ ReaderSteps
    \/ Finish

SpecConcurrent == InitConcurrent /\ [][NextConcurrent]_vars

\* a checkout: the creator has the processor create a session, the customer
\* pays, and the session is read back by the success page and by the webhook
CreateOne ==
    /\ invocations = 0
    /\ \E v \in Versions, ev \in RepeatEvents : Invoke(v, ev)

ReadCreated ==
    /\ invocations < MaxInvocations
    /\ \E i \in 1..Len(sessions) : ReadBack(ObjectOf(sessions[i]))

DeliverCreated ==
    /\ invocations < MaxInvocations
    /\ \E i \in 1..Len(sessions) : Deliver(ObjectOf(sessions[i]))

NextRoundTrip ==
    \/ CreateOne \/ CreateSucceeds \/ CreateFails \/ Resume
    \/ ReadCreated \/ DeliverCreated \/ ReaderSteps
    \/ Finish

SpecRoundTrip == Init /\ [][NextRoundTrip]_vars

----------------------------------------------------------------------------
(* Properties of the checkout-session creator *)

\* the cart of the running invocation
Cart == ItemsOf(event.body).v

\* the cart with the price fields of its lines replaced by ps
Repriced(cart, ps) == [i \in 1..Len(cart) |-> [cart[i] EXCEPT !.price = ps[i]]]

\* C1: for every cart line whose id is in the catalog, the unit amount of the
\* line item sent to the processor is the catalog's unit amount for that id;
\* and the line items sent are the ones any request differing only in the
\* client-supplied price fields would send.
C1_CatalogPricing ==
    calls > 0 =>
        /\ Len(sent.line_items) = Len(Cart)
        /\ \A i \in 1..Len(Cart) :
             StringOf(Cart[i].id) \in DOMAIN CATALOG =>
                sent.line_items[i].price_data.unit_amount
                    = Num(CATALOG[StringOf(Cart[i].id)].unit_amount)
        /\ \A ps \in [1..Len(Cart) -> ClientPrices] :
             LineItems(Repriced(Cart, ps)) = sent.line_items

\* a create call is in flight for a cart with a catalog line that carries a client price
C1_Witness ==
    /\ calls > 0
    /\ \E i \in 1..Len(Cart) :
         /\ Truthy(Cart[i].price)
         /\ StringOf(Cart[i].id) \in DOMAIN CATALOG

\* C2: the quantity of every line item sent to the processor is an integer
\* >= 1: a client quantity that is <= 0, absent or non-numeric is sent as 1,
\* and any other quantity as its parsed integer value.
C2_QuantityAtLeastOne ==
    calls > 0 =>
        \A i \in 1..Len(Cart) :
            LET c == Cart[i].quantity
                q == sent.line_items[i].quantity
                treatedAsOne == \/ c = Undef
                                \/ ParseInt(c) = NaN
                                \/ ParseInt(c).n <= 0
            IN /\ q.t = "num"
               /\ q.n >= 1
               /\ treatedAsOne => q = Num(1)
               /\ ~treatedAsOne => q = ParseInt(c)

\* the body is a JSON document in which no non-empty items array is found
NoUsableItems(body) ==
    /\ body.kind # "malformed"
    /\ ItemsOf(body).t # "array" \/ Len(ItemsOf(body).v) = 0

\* C3: a POST whose body's items is missing, is not an array or is an empty
\* array is answered 400, and no session-create call is made.
C3_NoItemsIs400 ==
    (pc = "done" /\ event.httpMethod = "POST" /\ NoUsableItems(event.body)) =>
        /\ resp.statusCode = 400
        /\ calls = 0

\* the cart has a line whose id is not a key of the catalog
HasUnknownId(ev) ==
    /\ ev.httpMethod = "POST"
    /\ ~NoUsableItems(ev.body)
    /\ ev.body.kind = "object"
    /\ \E i \in 1..Len(ev.body.items.v) :
         StringOf(ev.body.items.v[i].id) \notin DOMAIN CATALOG

\* C4: when any cart line's id is not in the catalog, the invocation creates
\* no remote session and is answered 500 with a JSON error message, wherever
\* the unknown line sits in the cart.
C4_UnknownIdIs500 ==
    (pc \in {"replied", "done"} /\ HasUnknownId(event)) =>
        /\ calls > 0 => ~reply.ok
        /\ pc = "done" =>
             /\ resp.statusCode = 500
             /\ resp.kind = "json"
             /\ "error" \in DOMAIN resp.json

C6_ProcessorFailureIs500 ==
    (pc = "done" /\ calls > 0 /\ ~reply.ok) =>
        /\ resp.statusCode = 500
        /\ resp.kind = "json"
        /\ resp.headers["Content-Type"] = "application/json"
        /\ resp.json = [error |-> reply.message]
        /\ calls = 1
        /\ Len(sessions) = okCount

\* an invocation has returned after the processor refused its create call
C6_Witness == pc = "done" /\ calls > 0 /\ ~reply.ok /\ resp.statusCode = 500

\* the event passes the handler's validation: a POST with a non-empty cart of catalog ids
PassesValidation(ev) ==
    /\ ev.httpMethod = "POST"
    /\ ev.body.kind = "object"
    /\ ev.body.items.t = "array"
    /\ Len(ev.body.items.v) > 0
    /\ \A i \in 1..Len(ev.body.items.v) : StringOf(ev.body.items.v[i].id) \in DOMAIN CATALOG

\* C7: every invocation that passes validation issues exactly one
\* session-create call, and after k successful invocations, identical ones
\* included, the processor holds k sessions with k distinct ids.
C7_OneSessionPerSuccess ==
    /\ (pc # "idle" /\ PassesValidation(event)) => calls = 1
    /\ pc \in {"idle", "done"} => Len(sessions) = okCount
    /\ \A i, j \in 1..Len(sessions) : sessions[i].id = sessions[j].id => i = j

\* two invocations with the same cart have both returned 200
C7_Witness ==
    /\ pc = "done"
    /\ okCount = 2
    /\ Len(sessions) = 2
    /\ sessions[1].params.metadata.cart = sessions[2].params.metadata.cart
    /\ sessions[1].params.line_items = sessions[2].params.line_items
    /\ sessions[1].id # sessions[2].id

\* the country the running invocation resolves
ResolvedCountry == detectCountry(event, HintOf(event.body))

\* how many of the shipping options sent carry the rate configured under key k
Offered(k) ==
    Cardinality({i \in 1..Len(sent.shipping_options) :
                    sent.shipping_options[i].shipping_rate = env[k]})

\* the shipping options sent are the configured rates of keys, each once, and nothing else
OfferedExactly(keys) ==
    /\ \A k \in RateKeys : Offered(k) = IF k \in keys /\ Truthy(env[k]) THEN 1 ELSE 0
    /\ Len(sent.shipping_options) = Cardinality({k \in keys : Truthy(env[k])})

AllRatesConfigured == \A k \in RateKeys : Truthy(env[k])

\* C8: in the country-aware creator, with country GB and a subtotal that
\* reaches the configured free-shipping threshold, the shipping options are
\* the free rate once, the standard rate and the express rate (each as far as
\* it is configured), and no regional or international rate.
C8_HomeCountryRates ==
    (/\ calls > 0
     /\ ver = "geo"
     /\ ResolvedCountry = Str(GB)
     /\ FreeEligible(env, Subtotal(sent.line_items))) =>
        OfferedExactly({"SHIP_FREE_UK", "SHIP_UK_STANDARD", "SHIP_UK_EXPRESS"})

\* a GB cart above the threshold was sent with free, standard and express
C8_Witness ==
    /\ calls > 0
    /\ ver = "geo"
    /\ ResolvedCountry = Str(GB)
    /\ FreeEligible(env, Subtotal(sent.line_items))
    /\ AllRatesConfigured
    /\ Len(sent.shipping_options) = 3
    /\ Offered("SHIP_FREE_UK") = 1

C10_RegionalAndInternational ==
    (calls > 0 /\ ver = "geo" /\ ResolvedCountry # Null /\ ResolvedCountry # Str(GB)) =>
        /\ IF ResolvedCountry.s \in EU_SET
           THEN OfferedExactly({"SHIP_EU"})
           ELSE OfferedExactly({"SHIP_INTL"})
        /\ Offered("SHIP_FREE_UK") = 0
        /\ Offered("SHIP_UK_STANDARD") = 0
        /\ Offered("SHIP_UK_EXPRESS") = 0

\* a cart above the threshold was sent for a regional country with the regional rate alone
C10_Witness ==
    /\ calls > 0
    /\ ver = "geo"
    /\ ResolvedCountry # Null
    /\ ResolvedCountry.s \in EU_SET
    /\ AllRatesConfigured
    /\ FreeEligible(env, Subtotal(sent.line_items))
    /\ sent.shipping_options = <<[shipping_rate |-> env["SHIP_EU"]]>>

----------------------------------------------------------------------------
(* Properties of the order reference *)

\* the order reference the creator generated for the session with this id
Generated(id) ==
    LET i == CHOOSE i \in 1..Len(sessions) : Str(sessions[i].id) = id
    IN Txt(sessions[i].params.client_reference_id)

\* C11: for a session the creator had the processor create, the order
\* reference in the retriever's receipt (second and third generation) and
\* the order reference in the email of either webhook handler are the order
\* reference the creator generated for that session.
C11_RoundTrip ==
    /\ (pc = "done" /\ ver \in {"trimmed", "sanitized"} /\ resp.statusCode = 200) =>
          resp.json.orderRef = Generated(sent.id)
    /\ (pc = "mailing" /\ ver \in Webhooks) =>
          sent.message.orderRef = Generated(local.session.id)

\* the references stored on session s where the creator writes them: the
\* correlation field and metadata.order_number
Stored(s) ==
    SelectSeq(<<s.client_reference_id, OptDot(s.metadata, "order_number")>>, IsTruthy)

\* s holds one reference, where the creator writes it, and no other
AsWritten(s) ==
    /\ Stored(s) # <<>>
    /\ \A j, k \in 1..Len(Stored(s)) : Stored(s)[j] = Stored(s)[k]
    /\ ~IsTruthy(OptDot(s.metadata, "order_ref"))

\* C12: whenever the reference generated at creation is stored in at least
\* one of the correlation field and metadata.order_number of a session, every
\* read of the session by the retriever (second and third generation) and by
\* either webhook handler yields that reference, never one synthesized from
\* the session id.
C12_StoredRefRecovered ==
    /\ (pc = "done" /\ ver \in {"trimmed", "sanitized"} /\ resp.statusCode = 200
        /\ AsWritten(reply.session)) =>
          resp.json.orderRef = Stored(reply.session)[1]
    /\ (pc = "mailing" /\ ver \in Webhooks /\ AsWritten(local.session)) =>
          sent.message.orderRef = Stored(local.session)[1]

----------------------------------------------------------------------------
(* Properties of the session retriever *)

\* the request names no session: no query string, no session_id in it, or an
\* empty one
NoSessionId(ev) ==
    \/ IsNullish(ev.queryStringParameters)
    \/ ~IsTruthy(ev.queryStringParameters.session_id)

\* C13: a GET without a session_id (absent, empty, or no query parameters at
\* all) is answered 400 by every generation of the retriever, and no call to
\* the processor is made.
C13_MissingSessionIdIs400 ==
    (pc # "idle" /\ ver \in Retrievers /\ event.httpMethod = "GET" /\ NoSessionId(event)) =>
        /\ calls = 0
        /\ pc = "done"
        /\ resp.statusCode = 400

\* the metadata field the generation v of the retriever looks in
MetadataCandidate(v, s) ==
    OptDot(s.metadata, IF v = "trimmed" THEN "order_number" ELSE "order_ref")

\* the first non-empty of: correlation field, metadata field, "CL-" and the
\* upper-cased tail of the session id
FirstCandidate(v, s) ==
    IF IsTruthy(s.client_reference_id) THEN s.client_reference_id
    ELSE IF IsTruthy(MetadataCandidate(v, s)) THEN MetadataCandidate(v, s)
    ELSE Str(CL \o ToUpperCase(SliceLast(s.id.s, 8)))

\* C14: the order reference in the retriever's receipt (second and third
\* generation) is the first non-empty candidate of: the session's
\* correlation field, the metadata field the generation looks in, and the
\* reference synthesized from the tail of the session id.
C14_OrderRefPriority ==
    (pc = "done" /\ ver \in {"trimmed", "sanitized"} /\ resp.statusCode = 200) =>
        resp.json.orderRef = FirstCandidate(ver, reply.session)

\* the integer found at field f of the optional object o, d when o or the
\* field is absent
Fetched(o, f, d) == IF IsNullish(o) \/ IsNullish(o[f]) THEN d ELSE o[f]

\* C15: whatever optional fields of a fetched session are absent, the
\* third-generation retriever answers 200, and subtotal, shipping, tax,
\* discount and total are the fetched amounts, absent ones being null
\* (subtotal, total) or 0 (shipping, tax, discount).
C15_OptionalFieldsDefaulted ==
    (pc = "done" /\ ver = "sanitized" /\ calls > 0 /\ reply.ok) =>
        /\ resp.statusCode = 200
        /\ resp.kind = "json"
        /\ LET s == reply.session
               t == resp.json.totals
           IN /\ t.subtotal = Fetched(s, "amount_subtotal", Null)
              /\ t.total = Fetched(s, "amount_total", Null)
              /\ t.shipping = Fetched(s.shipping_cost, "amount_total", Num(0))
              /\ t.tax = Fetched(s.total_details, "amount_tax", Num(0))
              /\ t.discount = Fetched(s.total_details, "amount_discount", Num(0))
              /\ resp.json.shipping.amount_total = t.shipping
              /\ \A f \in {"subtotal", "total"} : t[f].t \in {"num", "null"}
              /\ \A f \in {"shipping", "tax", "discount"} : t[f].t = "num"
              /\ Len(resp.json.items) = Len(LineItemData(s))

\* a session with no metadata, amounts, shipping cost, total details, payment
\* reference, customer details or line items was fetched and answered 200
C15_Witness ==
    /\ pc = "done"
    /\ ver = "sanitized"
    /\ calls > 0
    /\ reply.ok
    /\ resp.statusCode = 200
    /\ \A f \in {"metadata", "amount_subtotal", "amount_total", "shipping_cost",
                 "total_details", "payment_intent", "customer_details", "line_items"} :
         IsNullish(reply.session[f])
    /\ resp.json.totals.subtotal = Null
    /\ resp.json.totals.shipping = Num(0)

\* the body carries nothing of a receipt: it is a text, or a JSON object with
\* an error message only
NoReceipt(r) == r.kind = "text" \/ (r.kind = "json" /\ DOMAIN r.json = {"error"})

----------------------------------------------------------------------------
(* Properties of the webhook handler *)

\* the request carries a body and the signature the deployment's secret
\* gives for exactly the bytes of that body
SignatureValid(ev) ==
    /\ ~IsNullish(ev.body)
    /\ ev.body.s # <<>>
    /\ ev.body.s[1].encoding = (IF ev.isBase64Encoded THEN "base64" ELSE "utf8")
    /\ ~IsNullish(ev.headers.stripeSignature)
    /\ ev.headers.stripeSignature = Sign(ev.body.s[1].doc, STRIPE_WEBHOOK_SECRET)

\* the event document of a request that has a body
DocOf(ev) == ev.body.s[1].doc

\* C17: a request whose signature does not verify against the raw body, a
\* missing signature and a missing body included, is answered 400 by either
\* webhook handler, and for it no processor call is made and no email sent.
C17_UnverifiedIs400 ==
    (pc # "idle" /\ ver \in Webhooks /\ ~SignatureValid(event)) =>
        /\ calls = 0
        /\ emails = <<>>
        /\ pc = "done"
        /\ resp.statusCode = 400

\* C18: a verified event whose type is not checkout.session.completed is
\* answered 200 by either webhook handler, with no processor call and no
\* email.
C18_OtherEventsIgnored ==
    (pc # "idle" /\ ver \in Webhooks /\ SignatureValid(event)
     /\ DocOf(event).type # COMPLETED) =>
        /\ pc = "done"
        /\ resp.statusCode = 200
        /\ calls = 0
        /\ emails = <<>>

\* a verified expiry event of a session whose customer has an email address
\* was acknowledged
C18_Witness ==
    /\ pc = "done"
    /\ ver \in Webhooks
    /\ SignatureValid(event)
    /\ DocOf(event).type = "checkout.session.expired"
    /\ IsTruthy(emailOf(DocOf(event).data.object))
    /\ resp.statusCode = 200

\* C19: when the email-sending call of a verified completed event fails,
\* either webhook handler still answers 200.
C19_EmailFailureStill200 ==
    (pc = "done" /\ ver \in Webhooks /\ emails # <<>> /\ ~emails[Len(emails)].ok) =>
        /\ resp.statusCode = 200
        /\ resp.kind = "text"
        /\ resp.text = "ok"

\* the send of a verified completed event failed and the handler returned
C19_Witness ==
    /\ pc = "done"
    /\ ver \in Webhooks
    /\ SignatureValid(event)
    /\ DocOf(event).type = COMPLETED
    /\ Len(emails) = 1
    /\ ~emails[1].ok
    /\ resp.statusCode = 200

\* C20: every verified event is answered 200 by either webhook handler,
\* whether or not the session or line-item fetch, the shipping-rate lookup
\* or the email send failed.
C20_VerifiedAlways200 ==
    (pc = "done" /\ ver \in Webhooks /\ SignatureValid(event)) =>
        resp.statusCode = 200

----------------------------------------------------------------------------
(* Properties of the webhook handler's email and of its calls *)

\* the invocation ran on a verified checkout.session.completed event
VerifiedCompleted ==
    ver \in Webhooks /\ SignatureValid(event) /\ DocOf(event).type = COMPLETED

\* the message is addressed to the customer of session s, the shop in copy
ToCustomerOf(m, s) ==
    /\ m.to = emailOf(s)
    /\ m.cc = "sales@clarity-clothing.com"

\* C21 as claimed: every invocation of either webhook handler on a verified
\* checkout.session.completed event has handed exactly one message to the
\* email service by the time it returns, addressed to the customer with the
\* shop's address in copy.
C21_ExactlyOneEmail ==
    (pc = "done" /\ VerifiedCompleted) =>
        /\ Len(emails) = 1
        /\ \A s \in account : ToCustomerOf(emails[1].message, s)

\* C21 as amended: such an invocation hands at most one message to the email
\* service; it hands exactly one, addressed to the customer with the shop's
\* address in copy, when the session carries a customer email address and the
\* handler got past its processor fetch (it answers 200), and none when the
\* session carries no customer email address or the fetch failed.
C21_OneEmailWhenAddressed ==
    (pc = "done" /\ VerifiedCompleted) =>
        \A s \in account :
            IF IsTruthy(emailOf(s)) /\ resp.statusCode = 200
            THEN /\ Len(emails) = 1
                 /\ ToCustomerOf(emails[1].message, s)
            ELSE emails = <<>>

\* a message went out to the customer, the shop's address in copy
C21_Witness ==
    /\ pc = "done" /\ VerifiedCompleted
    /\ Len(emails) = 1
    /\ emails[1].message.to = Txt("buyer@example.com")
    /\ emails[1].message.cc = "sales@clarity-clothing.com"

\* C22: for every session, the order reference in the confirmation email of
\* either webhook handler is the order reference the third-generation
\* retriever returns for the same session.
C22_EmailRefIsRetrieverRef ==
    (pc = "done" /\ ver = "sanitized" /\ resp.statusCode = 200) =>
        \A i \in 1..Len(emails) :
            emails[i].message.orderRef = resp.json.orderRef

----------------------------------------------------------------------------
(* Properties of all three handlers *)

\* C23: an OPTIONS request to the checkout-session creator, the session
\* retriever or the webhook handler is answered 204 with an
\* Access-Control-Allow-Origin that is a member of the allow-list and an
\* Access-Control-Allow-Headers that echoes the requested headers, and for it
\* no external call is made.
C23_PreflightIs204 ==
    (pc # "idle" /\ event.httpMethod = "OPTIONS") =>
        /\ pc = "done"
        /\ calls = 0
        /\ emails = <<>>
        /\ resp.statusCode = 204
        /\ \E i \in 1..Len(ALLOWED_ORIGINS) :
             resp.headers["Access-Control-Allow-Origin"] = ALLOWED_ORIGINS[i]
        /\ event.headers.reqHdrs # "" =>
             resp.headers["Access-Control-Allow-Headers"] = event.headers.reqHdrs

\* C24: every response with a status of 400 or more, other than a
\* method-not-allowed response and the webhook handler's answer to a failed
\* signature verification, has a JSON body with an error field.
C24_ErrorsAreJson ==
    (/\ pc = "done"
     /\ resp.statusCode >= 400
     /\ resp.statusCode # 405
     /\ ~(ver \in Webhooks /\ resp.statusCode = 400)) =>
        /\ resp.kind = "json"
        /\ "error" \in DOMAIN resp.json

----------------------------------------------------------------------------
(* Properties of the country detection and of the subtotal *)

\* a 2-letter code
ValidCode(x) == x.t = "str" /\ Len(x.s) = 2

\* the country sources of a request, highest priority first: the geo
\* header's country, the CDN country headers, the client's hint
CountrySources(ev) ==
    << IF ev.headers.geo.kind = "object" THEN ev.headers.geo.country ELSE Undef,
       ev.headers.cfIpCountry, ev.headers.xCountry, ev.headers.xCountryCode,
       HintOf(ev.body) >>

\* the first valid code among the sources, upper-cased; null when none is valid
FirstValidCountry(ev) ==
    LET src == CountrySources(ev)
        valid == {i \in 1..Len(src) : ValidCode(src[i])}
    IN IF valid = {} THEN Null
       ELSE Str(ToUpperCase(src[CHOOSE i \in valid : \A j \in valid : i <= j].s))

\* C26: the country the country-aware creator selects shipping options for
\* is the first valid 2-letter code among the geo header's country, the CDN
\* country headers and the client's hint, in this order, upper-cased, and
\* null when none is valid: a hint never overrides a valid geo or CDN header.
C26_CountryPriority ==
    (pc = "awaiting" /\ ver = "geo") =>
        /\ ResolvedCountry = FirstValidCountry(event)
        /\ sent.shipping_options =
             ShippingOptions("geo", env, FirstValidCountry(event),
                             Subtotal(sent.line_items))

\* the quantity of a cart line as the creator is meant to clamp it: the
\* integer the client sent when it is at least 1, and 1 otherwise
ClampedQuantity(it) ==
    IF it.quantity = Undef \/ ParseInt(it.quantity) = NaN \/ ParseInt(it.quantity).n <= 0
    THEN 1
    ELSE ParseInt(it.quantity).n

\* the sum over the cart lines of catalog unit amount x clamped quantity
RECURSIVE CatalogSubtotal(_)
CatalogSubtotal(cart) ==
    IF cart = <<>> THEN 0
    ELSE CatalogSubtotal(Tail(cart))
         + CATALOG[StringOf(Head(cart).id)].unit_amount * ClampedQuantity(Head(cart))

\* C27: for a cart of catalog lines, the subtotal the creator uses for the
\* free-shipping decision is the integer sum over the cart lines of catalog
\* unit amount x clamped quantity, and the shipping options sent are the ones
\* that sum selects; for the cart [{id:"1", quantity:2}] the subtotal is 9998
\* and the one line item sent is "Classic Black Hoodie", quantity 2, unit
\* amount 4999.
C27_SubtotalIsCatalogSum ==
    (pc = "awaiting" /\ ver \in Versions
     /\ \A i \in 1..Len(Cart) : StringOf(Cart[i].id) \in DOMAIN CATALOG) =>
        /\ Subtotal(sent.line_items) = Num(CatalogSubtotal(Cart))
        /\ sent.shipping_options =
             ShippingOptions(ver, env, ResolvedCountry, Num(CatalogSubtotal(Cart)))
        /\ Cart = <<Line(Str(<<"1">>), Num(2), Undef, Undef, Undef)>> =>
             /\ Subtotal(sent.line_items) = Num(9998)
             /\ Len(sent.line_items) = 1
             /\ sent.line_items[1].price_data.product_data.name
                  = [product |-> "Classic Black Hoodie", suffix |-> <<>>]
             /\ sent.line_items[1].quantity = Num(2)
             /\ sent.line_items[1].price_data.unit_amount = Num(4999)

----------------------------------------------------------------------------
(* Properties of the handlers' external calls *)

\* C28 as claimed: an invocation of any handler has at most one call in
\* flight, issues a single processor call (the webhook handler one fetch per
\* verified checkout.session.completed event), and the webhook handler issues
\* at most one email call, only after the processor call has returned.
C28_SingleProcessorCall ==
    /\ calls <= 1
    /\ (pc = "done" /\ VerifiedCompleted) => calls = 1
    /\ pc \in {"awaiting", "replied"} => calls = 1
    /\ pc = "mailing" => reply # None
    /\ Len(emails) <= 1
    /\ pc \in {"awaiting", "replied"} => emails = <<>>

\* C28 as amended: the earlier webhook handler issues a second processor
\* call, the shipping-rate lookup, after the line-item fetch has returned,
\* when the event's session names a shipping rate; every other invocation
\* issues a single processor call. Calls are issued one after another, and the
\* email call, at most one, only after every processor call has returned.
C28_SequentialCalls ==
    /\ calls <= (IF ver = "short" THEN 2 ELSE 1)
    /\ (pc = "done" /\ VerifiedCompleted) => calls >= 1
    /\ pc \in {"awaiting", "replied"} => calls = 1
    /\ pc = "rating" =>
          /\ ver = "short"
          /\ calls = 2
          /\ reply # None /\ reply.ok
          /\ sent = RateCall(local.session.shipping_cost.shipping_rate)
    /\ calls = 2 => IsTruthy(OptDot(DocOf(event).data.object.shipping_cost, "shipping_rate"))
    /\ pc = "mailing" => reply # None
    /\ Len(emails) <= 1
    /\ pc \in {"awaiting", "replied", "rating"} => emails = <<>>

\* the earlier handler sent its email after two processor calls
C28_Witness ==
    /\ pc = "done"
    /\ VerifiedCompleted
    /\ ver = "short"
    /\ calls = 2
    /\ Len(emails) = 1

----------------------------------------------------------------------------
(* Properties of repeated deliveries *)

----------------------------------------------------------------------------
(* Properties of concurrent invocations *)

\* what a creator invocation c has sent and answered is what the handler
\* computes from c's own event, the configuration, an order number of the
\* clock and random source, and c's own reply
CreatorAlone(c) ==
    \E d \in Dates, r \in RandSuffixes :
        LET out == Outcome(c.ver, env, c.event, newOrderNumber(d, r))
        IN IF ~out.call
           THEN c.pc = "done" /\ c.resp = out.resp /\ c.sent = None /\ c.calls = 0
           ELSE /\ c.sent = out.params
                /\ c.calls = 1
                /\ c.pc \in {"awaiting", "replied", "done"}
                /\ c.pc = "awaiting" => c.reply = None
                /\ c.pc # "done" => c.resp = NoResponse
                /\ (c.pc # "awaiting" /\ c.reply.ok) => c.reply.session.params = c.sent
                /\ c.pc = "done" =>
                      c.resp = IF c.reply.ok
                               THEN SuccessResponse(corsHeaders(c.event.headers.origin, ""),
                                                    c.reply.session)
                               ELSE ErrorResponse(corsHeaders(c.event.headers.origin, ""),
                                                  c.reply.message)

\* the same of a retriever invocation
RetrieverAlone(c) ==
    LET out == RetrieveOutcome(c.ver, c.event)
    IN IF ~out.call
       THEN c.pc = "done" /\ c.resp = out.resp /\ c.sent = None /\ c.calls = 0
       ELSE /\ c.sent = out.params
            /\ c.calls = 1
            /\ c.pc \in {"awaiting", "replied", "done"}
            /\ c.pc = "awaiting" => c.reply = None
            /\ c.pc # "done" => c.resp = NoResponse
            /\ (c.pc # "awaiting" /\ c.reply.ok) => c.reply.session.id = c.sent.id
            /\ c.pc = "done" =>
                  c.resp = RetrieveResponse(c.ver, c.event.headers.origin, c.reply)

\* the same of a webhook invocation: its calls are about the session of its
\* own event and its message is made from its own locals
WebhookAlone(c) ==
    LET out == WebhookOutcome(c.ver, c.event)
    IN IF ~out.call
       THEN c.pc = "done" /\ c.resp = out.resp /\ c.sent = None /\ c.calls = 0
       ELSE LET own == DocOf(c.event).data.object
            IN /\ c.pc \in {"awaiting", "rating", "mailing", "done"}
               /\ c.pc = "awaiting" =>
                     c.sent = out.params /\ c.local = out.local /\ c.reply = None
               /\ c.pc = "rating" =>
                     /\ c.ver = "short"
                     /\ c.local.session = own
                     /\ c.sent = RateCall(own.shipping_cost.shipping_rate)
               /\ c.pc \in {"rating", "mailing"} =>
                     /\ c.local.session.id = own.id
                     /\ c.local.orderRef = IF c.ver = "short" THEN shortOrderNumber(own)
                                           ELSE polishedOrderRef(c.reply.session)
                     /\ c.local.email = emailOf(c.local.session)
               /\ c.pc = "mailing" => c.sent = SendCall(Message(c.ver, c.local))
               /\ c.pc # "done" => c.resp = NoResponse
               /\ c.pc = "done" =>
                     \/ /\ c.resp = Ack("ok")
                        /\ c.sent.op = "emails.send" =>
                              /\ c.sent.message.to = emailOf(own)
                              /\ \E i \in 1..Len(emails) : emails[i].message = c.sent.message
                     \/ /\ ~c.reply.ok
                        /\ c.calls = 1
                        /\ c.resp = IF c.ver = "short" THEN Uncaught(c.reply.message)
                                    ELSE TextResponse(500, NoHeaders, "Internal Error")

Alone(c) ==
    \/ c.pc = "idle" /\ c = Fresh(c.ver)
    \/ c.pc # "idle" /\ c.ver \in Versions /\ CreatorAlone(c)
    \/ c.pc # "idle" /\ c.ver \in Retrievers /\ RetrieverAlone(c)
    \/ c.pc # "idle" /\ c.ver \in Webhooks /\ WebhookAlone(c)

\* C29: in every interleaving of two invocations (of the same or of different
\* handlers, for the same cart or session), what each invocation has sent
\* and answered is what its handler computes from its own event, the
\* configuration, the clock and random source and its own replies, as when
\* it runs alone.
C29_InvocationsIndependent ==
    /\ Alone(Running)
    /\ parked # None => Alone(parked)

\* two invocations of the creator for the same cart have both been answered
\* by the processor, differently, and neither has returned yet
C29_Witness ==
    /\ parked # None
    /\ pc = "replied"
    /\ parked.pc = "replied"
    /\ ver = parked.ver
    /\ event = parked.event
    /\ reply # parked.reply

====
